---- MODULE Spec2Model ----
(***************************************************************************)
(* Model of the treasury-wallet reconciliation scripts: the JSON-RPC       *)
(* client with endpoint rotation, the signature paginators, the            *)
(* transaction fetcher, the transfer extractor and the run loop.           *)
(*                                                                         *)
(* Amounts are kept in integer lamports.  The scripts divide by            *)
(* LAMPORTS_PER_SOL in binary floating point; for the balances of this     *)
(* model the float comparisons agree with the exact ones except when the   *)
(* two sides are exactly equal, where the outcome depends on rounding.     *)
(* Such ties are an input (a boolean) of the operators that compare.       *)
(***************************************************************************)
EXTENDS Integers, Sequences, FiniteSets, TLC

VARIABLES
    mode,        \* which part of the program this behaviour exercises
    responses,   \* rpc: what each endpoint of RPC_URLS answers, in list order
    rpcPc,       \* rpc: "ready" before the call, "returned" after it
    rpcOut,      \* rpc: what rpc_request returned and the endpoints it tried
    script,      \* paginator: which script's pagination loop runs
    K,           \* paginator: length of the fixed history the provider serves
    batch_size,  \* paginator: the limit parameter of each call
    max_total,   \* paginator: examine_all_txs' limit argument
    all_signatures, \* paginator: the records accumulated so far
    before,      \* paginator: the cursor (0 is None)
    iter,        \* paginator: get_all_incoming's loop index i
    pagPc,       \* paginator: "loop" while the loop runs, "done" on return
    pagHist,     \* paginator: what the calls so far did (history)
    tx_data,     \* extractor: the transaction record handed to the function
    exFn,        \* extractor: the function that ran ("" before the call)
    exOut,       \* extractor: how the call ended
    runScript,   \* run: which script's main loop runs
    signatures,  \* run: the signature records the paginator returned
    runIdx,      \* run: how many of them the loop has been through
    sol_transfers, \* run: the transfers collected so far
    processed,   \* run: main's counter of processed transactions
    totals,      \* run: total_in and total_out, set after the loop
    runPc,       \* run: "loop", "done", or "crashed" (an exception left main)
    runHist,     \* run: what the iterations so far did (history)
    ledger,      \* contributions: the provider's history, newest first
    page,        \* contributions: how many records the provider returns
    before_signature, \* contributions: the cursor (0 is None)
    batch_count, \* contributions: while-loop iterations started
    signatures_data,  \* contributions: the batch being processed
    entryIdx,    \* contributions: entries of the batch already processed
    all_contributions, \* contributions: the records found so far
    total_sol,   \* contributions: their sum, in quarters of a SOL
    processed_count,   \* contributions: transactions processed
    conPc,       \* contributions: "while", "for", "done" or "crashed"
    conHist      \* contributions: what the calls so far did (history)

rpcVars == <<responses, rpcPc, rpcOut>>
pagVars == <<script, K, batch_size, max_total, all_signatures, before, iter,
             pagPc, pagHist>>
exVars == <<tx_data, exFn, exOut>>
runVars == <<runScript, signatures, runIdx, sol_transfers, processed, totals,
             runPc, runHist>>
conVars == <<ledger, page, before_signature, batch_count, signatures_data,
             entryIdx, all_contributions, total_sol, processed_count, conPc,
             conHist>>
vars == <<mode, rpcVars, pagVars, exVars, runVars, conVars>>

\* Python's None, and a value that is not None: an optional value is a
\* sequence of length 0 or 1
None == <<>>
Some(x) == <<x>>

(***************************************************************************)
(* Bounds of the model.                                                    *)
(***************************************************************************)
MaxEndpoints == 4
MaxK == 21
MaxBatch == 3
MaxTotal == 4
MaxAccounts == 3
MaxInstr == 2
MaxSigs == 3

(***************************************************************************)
(* RPC client: get_sol_transfers.py rpc_request.                           *)
(*                                                                         *)
(* What one endpoint does with one POST.  "exception": requests.post       *)
(* raises (timeout, connection error).  Otherwise an HTTP response with a  *)
(* status (2xx or not) and a body: not JSON, JSON with an "error" member,  *)
(* JSON with a "result" member, or other JSON (neither member).            *)
(***************************************************************************)
Responses ==
    { [raises |-> TRUE, http_ok |-> FALSE, body |-> "none"] }
    \cup [raises : {FALSE}, http_ok : {TRUE},
          body : {"not_json", "error", "result", "other_json"}]
    \cup [raises : {FALSE}, http_ok : {FALSE},
          body : {"not_json", "error", "other_json"}]

\* response.json() raises on a body that is not JSON
JsonRaises(r) == r.body = "not_json"

\* the try block of rpc_request lands in `except Exception`
Raises(r) == r.raises \/ JsonRaises(r)

\* `if "error" in result`
HasError(r) == r.body = "error"

RetryAllowedOffByOne(n, attempt) == attempt < n

\* `if attempt < len(RPC_URLS) - 1`
RetryAllowed(n, attempt) == attempt < n - 1

\* rpc_request(method, params, attempt): the value returned (None, or the
\* decoded body of the endpoint that answered) and the endpoint indexes
\* POSTed to, in order.
RECURSIVE rpc_request(_, _)
rpc_request(rs, attempt) ==
    LET url_index == attempt % Len(rs)
        r == rs[url_index + 1]
        retry == IF RetryAllowed(Len(rs), attempt)
                 THEN rpc_request(rs, attempt + 1)
                 ELSE [ret |-> None, tried |-> <<>>, answered |-> -1]
    IN  IF Raises(r) \/ HasError(r)
        THEN [retry EXCEPT !.tried = <<url_index>> \o @]
        ELSE [ret |-> Some(r), tried |-> <<url_index>>, answered |-> url_index]

NoCall == [ret |-> None, tried |-> <<>>, answered |-> -1]

NoConHist == [failures |-> 0, empties |-> 0]

\* the contribution run's variables while another part of the program is
\* exercised
ConIdle ==
    /\ ledger = <<>>
    /\ page = 0
    /\ before_signature = 0
    /\ batch_count = 0
    /\ signatures_data = <<>>
    /\ entryIdx = 0
    /\ all_contributions = <<>>
    /\ total_sol = 0
    /\ processed_count = 0
    /\ conPc = "idle"
    /\ conHist = NoConHist

NoRunHist ==
    [fetched |-> <<>>, noneAt |-> {}, yielded |-> <<>>, paced |-> {},
     last |-> [sig |-> 0, rec |-> None], shown |-> <<>>]

\* the run loop's variables while another part of the program is exercised
RunIdle ==
    /\ runScript = "none"
    /\ signatures = <<>>
    /\ runIdx = 0
    /\ sol_transfers = <<>>
    /\ processed = 0
    /\ totals = [total_in |-> 0, total_out |-> 0]
    /\ runPc = "idle"
    /\ runHist = NoRunHist

\* the extractor's variables while another part of the program is exercised
ExIdle ==
    /\ tx_data = <<>>
    /\ exFn = ""
    /\ exOut = [raised |-> FALSE, caught |-> FALSE, value |-> <<>>]

\* the paginator's variables while another part of the program is exercised
PagIdle ==
    /\ script = "none"
    /\ K = 0
    /\ batch_size = 0
    /\ max_total = 0
    /\ all_signatures = <<>>
    /\ before = 0
    /\ iter = 0
    /\ pagPc = "idle"
    /\ pagHist = [calls |-> 0, failed |-> FALSE, afterFail |-> 0,
                  received |-> 0, clean |-> TRUE]

RpcInit ==
    /\ mode = "rpc"
    /\ ConIdle
    /\ PagIdle
    /\ ExIdle
    /\ RunIdle
    /\ \E n \in 1..MaxEndpoints : responses \in [1..n -> Responses]
    /\ rpcPc = "ready"
    /\ rpcOut = NoCall

\* one call rpc_request(method, params) with the default attempt=0
RpcCall ==
    /\ mode = "rpc"
    /\ rpcPc = "ready"
    /\ rpcOut' = rpc_request(responses, 0)
    /\ rpcPc' = "returned"
    /\ UNCHANGED <<mode, conVars, responses, pagVars, exVars, runVars>>

RpcNext == RpcCall

SpecRpc == RpcInit /\ [][RpcNext]_vars

(***************************************************************************)
(* Signature paginators.  The provider serves a fixed history of K         *)
(* signatures, newest first; signature i is the i-th newest.  It honours   *)
(* `limit` and the `before` cursor.                                        *)
(***************************************************************************)
NumRpcUrls == 4
MAX_BATCHES == 20

Min(a, b) == IF a < b THEN a ELSE b

\* getSignaturesForAddress(address, {limit, before}) answered by the provider
Batch(b, limit) == [i \in 1..Min(limit, K - b) |-> b + i]

\* What one getSignaturesForAddress call can come to, by the client used:
\* "fail" (no response at all), "no_result" (a decoded body without a
\* "result" member) or "batch" (the provider's answer).
ClassifyRpc(out) ==
    IF out.ret = None THEN "fail"
    ELSE IF out.ret[1].body = "result" THEN "batch" ELSE "no_result"

\* get_sol_transfers.py: through rpc_request over RPC_URLS
RpcOutcomes ==
    { ClassifyRpc(rpc_request(rs, 0)) : rs \in [1..NumRpcUrls -> Responses] }

\* scripts/get_all_incoming.py: requests.post(...).json().get("result", [])
\* inside try/except
DirectOutcomes ==
    { IF Raises(r) THEN "fail"
      ELSE IF r.body = "result" THEN "batch" ELSE "no_result" : r \in Responses }

\* examine_all_txs.py, get_all_txn_data.py: the solana-py Client either
\* raises or returns response.value
ClientOutcomes == {"fail", "batch"}

Scripts == {"get_sol_transfers", "examine_all_txs", "get_all_incoming",
            "get_all_txn_data"}

\* What the pagination has done so far: calls issued and their outcomes,
\* the cursor the latest call carried (`sent`), the last record of the most
\* recent non-empty batch received before that call (`expected`, 0 for
\* none) and after it (`last`), and whether a short or an empty batch came
HistAfter(h, o, batch, b) ==
    [calls |-> h.calls + 1,
     failed |-> h.failed \/ o = "fail",
     afterFail |-> h.afterFail + (IF h.failed THEN 1 ELSE 0),
     received |-> h.received + Len(batch),
     clean |-> h.clean /\ o = "batch",
     short |-> h.short \/ (o = "batch" /\ batch # <<>>
                                        /\ Len(batch) < batch_size),
     empty |-> h.empty \/ (o = "batch" /\ batch = <<>>),
     sent |-> b,
     expected |-> h.last,
     last |-> IF batch # <<>> THEN batch[Len(batch)] ELSE h.last]

NoHist == [calls |-> 0, failed |-> FALSE, afterFail |-> 0, received |-> 0,
           clean |-> TRUE, short |-> FALSE, empty |-> FALSE, sent |-> 0,
           expected |-> 0, last |-> 0]

PagInit ==
    /\ mode = "paginate"
    /\ ConIdle
    /\ responses = <<>> /\ rpcPc = "idle" /\ rpcOut = NoCall
    /\ ExIdle
    /\ RunIdle
    /\ script \in Scripts
    /\ K \in 0..MaxK
    /\ batch_size \in 1..MaxBatch
    /\ max_total \in (IF script = "examine_all_txs" THEN 1..MaxTotal ELSE {0})
    /\ all_signatures = <<>>
    /\ before = 0
    /\ iter = 0
    /\ pagPc = "loop"
    /\ pagHist = NoHist

FirstSignature(batch) == batch[1]

\* `before = batch[-1]["signature"]`: the cursor for the next call
LastSignature(batch) == batch[Len(batch)]

SolNextPcRetry(o, batch) ==
    IF o = "fail" THEN "loop"
    ELSE IF batch = <<>> \/ Len(batch) < batch_size THEN "done" ELSE "loop"

\* get_sol_transfers.get_all_signatures: where one iteration leaves the loop
SolNextPc(o, batch) ==
    IF o # "batch" \/ batch = <<>> THEN "done"
    ELSE IF Len(batch) < batch_size THEN "done" ELSE "loop"

\* get_sol_transfers.get_all_signatures: one iteration of `while True`
GetAllSignaturesSol ==
    /\ mode = "paginate" /\ script = "get_sol_transfers" /\ pagPc = "loop"
    /\ \E o \in RpcOutcomes :
         LET batch == IF o = "batch" THEN Batch(before, batch_size) ELSE <<>>
         IN  /\ pagHist' = HistAfter(pagHist, o, batch, before)
             /\ all_signatures' = all_signatures \o batch
             /\ pagPc' = SolNextPc(o, batch)
             /\ before' = IF batch # <<>> /\ Len(batch) >= batch_size
                          THEN LastSignature(batch) ELSE before
    /\ UNCHANGED <<mode, conVars, rpcVars, exVars, runVars, script, K, batch_size, max_total, iter>>

\* examine_all_txs.get_all_signatures: where one iteration leaves the loop
ExamineNextPc(o, batch) ==
    IF o = "fail" \/ batch = <<>> THEN "done"
    ELSE IF Len(batch) < batch_size THEN "done"
    ELSE IF Len(all_signatures) + Len(batch) >= max_total THEN "done"
    ELSE "loop"

\* examine_all_txs.get_all_signatures(address, limit): one iteration
GetAllSignaturesExamine ==
    /\ mode = "paginate" /\ script = "examine_all_txs" /\ pagPc = "loop"
    /\ \E o \in ClientOutcomes :
         LET batch == IF o = "batch" THEN Batch(before, batch_size) ELSE <<>>
         IN  /\ pagHist' = HistAfter(pagHist, o, batch, before)
             /\ all_signatures' = all_signatures \o batch
             /\ pagPc' = ExamineNextPc(o, batch)
             /\ before' = IF batch # <<>> /\ Len(batch) >= batch_size
                          THEN LastSignature(batch) ELSE before
    /\ UNCHANGED <<mode, conVars, rpcVars, exVars, runVars, script, K, batch_size, max_total, iter>>

\* scripts/get_all_incoming.get_signatures: one iteration of
\* `for i in range(20)`; an exception is caught inside the loop, which goes on
GetSignaturesIncoming ==
    /\ mode = "paginate" /\ script = "get_all_incoming" /\ pagPc = "loop"
    /\ iter < MAX_BATCHES
    /\ \E o \in DirectOutcomes :
         LET batch == IF o = "batch" THEN Batch(before, batch_size) ELSE <<>>
             break == o # "fail" /\ batch = <<>>
         IN  /\ pagHist' = HistAfter(pagHist, o, batch, before)
             /\ all_signatures' = all_signatures \o batch
             /\ before' = IF batch # <<>> THEN LastSignature(batch) ELSE before
             /\ iter' = IF break THEN iter ELSE iter + 1
             /\ pagPc' = IF break \/ iter + 1 >= MAX_BATCHES
                         THEN "done" ELSE "loop"
    /\ UNCHANGED <<mode, conVars, rpcVars, exVars, runVars, script, K, batch_size, max_total>>

\* get_all_txn_data.main: `while sig_batch and len(sig_batch) == 1000`
TxnDataNextPc(o, sig_batch) ==
    IF sig_batch # <<>> /\ Len(sig_batch) = batch_size THEN "loop" ELSE "done"

\* get_all_txn_data.main: one get_signatures call (it returns [] when the
\* client raises) and the extend that follows it
GetSignaturesTxnData ==
    /\ mode = "paginate" /\ script = "get_all_txn_data" /\ pagPc = "loop"
    /\ \E o \in ClientOutcomes :
         LET sig_batch == IF o = "batch" THEN Batch(before, batch_size)
                          ELSE <<>>
         IN  /\ pagHist' = HistAfter(pagHist, o, sig_batch, before)
             /\ all_signatures' = all_signatures \o sig_batch
             /\ pagPc' = TxnDataNextPc(o, sig_batch)
             /\ before' = IF sig_batch # <<>> /\ Len(sig_batch) = batch_size
                          THEN LastSignature(sig_batch) ELSE before
    /\ UNCHANGED <<mode, conVars, rpcVars, exVars, runVars, script, K, batch_size, max_total, iter>>

PagNext ==
    \/ GetAllSignaturesSol
    \/ GetAllSignaturesExamine
    \/ GetSignaturesIncoming
    \/ GetSignaturesTxnData

SpecPaginator == PagInit /\ [][PagNext]_vars

(***************************************************************************)
(* Transfer extractor: get_sol_transfers.py extract_sol_transfers.         *)
(*                                                                         *)
(* A transaction record (the "result" of getTransaction) is                *)
(*   meta         "absent", "null" or "present"                            *)
(*   shape        "ok", or the one member that is missing under            *)
(*                meta / transaction: "no_balances", "no_transaction",     *)
(*                "no_fee", "no_signatures"                                *)
(*   accountKeys  sequence of [wrapped, pubkey]: a {"pubkey": ..} object   *)
(*                or a bare address string                                 *)
(*   preBalances, postBalances   sequences of lamports                     *)
(*   fee          lamports                                                 *)
(*   blockTime    [kind: "absent" | "null" | "int", value]                 *)
(*   logMessages  "absent", "null", "no_system" (log lines, none of the    *)
(*                system program) or "system" (some line has               *)
(*                "Program 111...1 invoke")                                *)
(*   has_instructions  whether message has an "instructions" member        *)
(*   instructions sequence of                                              *)
(*                [parsed, program, type, source, destination, lamports]   *)
(*   signature    signatures[0]                                            *)
(* The result is [raised, value]: an exception left the function, or it    *)
(* returned None or a transfer record.  balance_change is in lamports.     *)
(***************************************************************************)
LAMPORTS_PER_SOL == 1000000000
DUST_LAMPORTS == 1000
Unknown == "Unknown"

Abs(x) == IF x < 0 THEN -x ELSE x

\* a > b and a >= b on floats: as on the exact values, except that the
\* outcome at exact equality depends on the rounding of the divisions
FloatGT(a, b, tie) == a > b \/ (a = b /\ tie)
FloatGE(a, b, tie) == a > b \/ (a = b /\ tie)

\* how a call ended: it returned v, an exception left it, or (in a function
\* that wraps its body in try/except) an exception was caught inside
Returned(v) == [raised |-> FALSE, caught |-> FALSE, value |-> v]
Raised == [raised |-> TRUE, caught |-> FALSE, value |-> None]
Caught == [raised |-> FALSE, caught |-> TRUE, value |-> None]

\* `isinstance(key, dict) and key.get("pubkey") == treasury_address`
\* or `key == treasury_address`
KeyMatches(key, treasury_address) ==
    \/ key.wrapped /\ key.pubkey = treasury_address
    \/ ~key.wrapped /\ key.pubkey = treasury_address

TreasuryIndexOrFirst(account_keys, treasury_address) ==
    LET hits == { i \in 1..Len(account_keys) :
                    KeyMatches(account_keys[i], treasury_address) }
    IN  IF hits = {} THEN (IF account_keys = <<>> THEN 0 ELSE 1)
        ELSE CHOOSE i \in hits : \A j \in hits : i <= j

\* the loop that finds treasury_index; 0 is None, indexes are 1-based
TreasuryIndex(account_keys, treasury_address) ==
    LET hits == { i \in 1..Len(account_keys) :
                    KeyMatches(account_keys[i], treasury_address) }
    IN  IF hits = {} THEN 0
        ELSE CHOOSE i \in hits : \A j \in hits : i <= j

DustFilterNonZero(balance_change, tie) == Abs(balance_change) > 0

\* `if abs(balance_change) > 0.000001`
DustFilter(balance_change, tie) ==
    FloatGT(Abs(balance_change), DUST_LAMPORTS, tie)

SenderQualifiesAnySign(change, fee, balance_change, tie) ==
    FloatGE(Abs(change + fee), Abs(balance_change), tie)

\* incoming: `change < 0 and abs(change + fee) >= abs(balance_change)`
SenderQualifies(change, fee, balance_change, tie) ==
    change < 0 /\ FloatGE(Abs(change + fee), Abs(balance_change), tie)

\* outgoing: `change > 0 and abs(change) >= abs(balance_change)`
RecipientQualifies(change, balance_change, tie) ==
    change > 0 /\ FloatGE(Abs(change), Abs(balance_change), tie)

\* the indexes zip(pre_balances, post_balances) visits, other than treasury's
Others(tx, idx) ==
    { i \in 1..Min(Len(tx.preBalances), Len(tx.postBalances)) : i # idx }

\* index of the account the counterparty loop stops at (0: it ran out)
CounterpartyIndex(tx, idx, balance_change, tie) ==
    LET q == { i \in Others(tx, idx) :
                 LET change == tx.postBalances[i] - tx.preBalances[i]
                 IN  IF balance_change > 0
                     THEN SenderQualifies(change, tx.fee, balance_change,
                                          i \in tie.match)
                     ELSE RecipientQualifies(change, balance_change,
                                             i \in tie.match) }
    IN  IF q = {} THEN 0 ELSE CHOOSE i \in q : \A j \in q : i <= j

\* tx_data["meta"]["fee"] is read for an incoming transfer as soon as some
\* other account has a negative change
FeeIsRead(tx, idx, balance_change) ==
    /\ balance_change > 0
    /\ \E i \in Others(tx, idx) : tx.postBalances[i] - tx.preBalances[i] < 0

\* `instr` passes the test of the instruction loop
IsSystemTransfer(instr) ==
    instr.parsed /\ instr.program = "system" /\ instr.type = "transfer"

NoDescription == [kind |-> "", amount |-> 0, party |-> ""]

\* the description one instruction leaves (its own, or the one before it)
DescriptionOf(instr, treasury_address, desc) ==
    IF ~IsSystemTransfer(instr) THEN desc
    ELSE IF instr.source = treasury_address
    THEN [kind |-> "Transfer to", amount |-> instr.lamports,
          party |-> instr.destination]
    ELSE IF instr.destination = treasury_address
    THEN [kind |-> "Receive from", amount |-> instr.lamports,
          party |-> instr.source]
    ELSE desc

\* the instruction loop: every matching instruction overwrites description
RECURSIVE Description(_, _, _)
Description(instrs, treasury_address, desc) ==
    IF instrs = <<>> THEN desc
    ELSE Description(Tail(instrs), treasury_address,
                     DescriptionOf(Head(instrs), treasury_address, desc))

SystemFlagFromInstructions(tx) ==
    \/ tx.logMessages = "system"
    \/ tx.has_instructions
       /\ \E k \in 1..Len(tx.instructions) : IsSystemTransfer(tx.instructions[k])

\* the log loop: is_system_transfer
IsSystemFlag(tx) == tx.logMessages = "system"

CounterpartyFromInstruction(tx, treasury_address, cidx) ==
    LET d == IF ~tx.has_instructions THEN NoDescription
             ELSE Description(tx.instructions, treasury_address, NoDescription)
    IN  IF d.kind # "" THEN d.party
        ELSE IF cidx = 0 THEN Unknown ELSE tx.accountKeys[cidx].pubkey

\* `counterparty if counterparty else "Unknown"`
CounterpartyOf(tx, treasury_address, cidx) ==
    IF cidx = 0 THEN Unknown ELSE tx.accountKeys[cidx].pubkey

extract_sol_transfers(tx, treasury_address, tie) ==
    IF tx.meta # "present" THEN Returned(None)
    ELSE IF tx.shape \in {"no_balances", "no_transaction"} THEN Raised
    ELSE
    LET treasury_index == TreasuryIndex(tx.accountKeys, treasury_address)
    IN
    IF treasury_index = 0 THEN Returned(None)
    ELSE IF ~(treasury_index <= Len(tx.preBalances)
              /\ treasury_index <= Len(tx.postBalances))
    THEN Returned(None)
    ELSE
    LET balance_change == tx.postBalances[treasury_index]
                          - tx.preBalances[treasury_index]
    IN
    IF ~DustFilter(balance_change, tie.dust) THEN Returned(None)
    ELSE IF tx.shape = "no_fee" /\ FeeIsRead(tx, treasury_index, balance_change)
    THEN Raised
    ELSE
    LET cidx == CounterpartyIndex(tx, treasury_index, balance_change, tie)
    IN
    IF cidx > Len(tx.accountKeys) THEN Raised
    ELSE IF tx.logMessages = "null" THEN Raised
    ELSE IF tx.blockTime.kind = "null" THEN Raised
    ELSE IF tx.shape = "no_signatures" THEN Raised
    ELSE Returned(Some(
        [timestamp |-> IF tx.blockTime.kind = "int" THEN tx.blockTime.value
                       ELSE 0,
         signature |-> tx.signature,
         balance_change |-> balance_change,
         counterparty |-> CounterpartyOf(tx, treasury_address, cidx),
         is_system_transfer |-> IsSystemFlag(tx),
         description |->
             IF ~tx.has_instructions THEN NoDescription
             ELSE Description(tx.instructions, treasury_address,
                              NoDescription)]))

(***************************************************************************)
(* scripts/get_all_incoming.py find_incoming_transactions: what the body   *)
(* of the loop makes of one fetched record.  The body is inside            *)
(* try/except, so no exception leaves it.                                  *)
(***************************************************************************)
\* `isinstance(key, dict) and key.get("pubkey") == TREASURY` or
\* `isinstance(key, str) and key == TREASURY`: the first index, 0 for None
IncomingTreasuryIndex(account_keys, treasury_address) ==
    LET hits == { i \in 1..Len(account_keys) :
                    account_keys[i].pubkey = treasury_address }
    IN  IF hits = {} THEN 0
        ELSE CHOOSE i \in hits : \A j \in hits : i <= j

\* `inst.get("parsed", {}).get("type") == "transfer"` and
\* `info.get("destination") == TREASURY`
IncomingInstrMatches(inst, treasury_address) ==
    inst.parsed /\ inst.type = "transfer" /\ inst.destination = treasury_address

\* the sender loop: source of the first matching instruction, "" for None
IncomingSender(instrs, treasury_address) ==
    LET hits == { k \in 1..Len(instrs) :
                    IncomingInstrMatches(instrs[k], treasury_address) }
    IN  IF hits = {} THEN ""
        ELSE instrs[CHOOSE k \in hits : \A j \in hits : k <= j].source

find_incoming_one(tx, treasury_address) ==
    IF tx.meta # "present" THEN Returned(None)
    ELSE IF tx.shape = "no_transaction" THEN Caught
    ELSE
    LET treasury_index == IncomingTreasuryIndex(tx.accountKeys, treasury_address)
    IN
    IF treasury_index = 0 THEN Returned(None)
    ELSE IF tx.shape = "no_balances" THEN Caught
    ELSE IF treasury_index > Len(tx.preBalances)
            \/ treasury_index > Len(tx.postBalances) THEN Caught
    ELSE
    LET sol_change == tx.postBalances[treasury_index]
                      - tx.preBalances[treasury_index]
    IN
    IF ~(sol_change > 0) THEN Returned(None)
    ELSE IF ~tx.has_instructions THEN Caught
    ELSE
    LET sender == IncomingSender(tx.instructions, treasury_address)
    IN  Returned(Some(
            [sender |-> IF sender # "" THEN sender
                        ELSE tx.accountKeys[1].pubkey,
             amount |-> sol_change,
             signature |-> tx.signature]))

(***************************************************************************)
(* examine_all_txs.py analyze_transaction: the accounts whose balance      *)
(* changed by more than the dust threshold, None when the treasury is not  *)
(* among them.                                                             *)
(***************************************************************************)
\* the indexes zip(pre_balances, post_balances) keeps, in ascending order
RECURSIVE AnalyzeTransfers(_, _, _, _)
AnalyzeTransfers(tx, treasury_address, tie, i) ==
    IF i > Min(Len(tx.preBalances), Len(tx.postBalances)) THEN <<>>
    ELSE LET change == tx.postBalances[i] - tx.preBalances[i]
             rest == AnalyzeTransfers(tx, treasury_address, tie, i + 1)
         IN  IF DustFilter(change, tie.dust)
             THEN <<[account |-> tx.accountKeys[i].pubkey,
                     change_sol |-> change,
                     is_treasury |->
                         tx.accountKeys[i].pubkey = treasury_address]>>
                  \o rest
             ELSE rest

\* keys[i] of an account beyond the end of account_keys raises IndexError
AnalyzeIndexError(tx, tie) ==
    \E i \in 1..Min(Len(tx.preBalances), Len(tx.postBalances)) :
        /\ i > Len(tx.accountKeys)
        /\ DustFilter(tx.postBalances[i] - tx.preBalances[i], tie.dust)

analyze_transaction(tx, treasury_address, tie) ==
    IF tx.meta # "present" THEN Returned(None)
    ELSE IF AnalyzeIndexError(tx, tie) THEN Raised
    ELSE
    LET transfers == AnalyzeTransfers(tx, treasury_address, tie, 1)
    IN  IF \E k \in 1..Len(transfers) : transfers[k].is_treasury
        THEN Returned(Some([signature |-> tx.signature,
                            block_time |-> tx.blockTime,
                            transfers |-> transfers]))
        ELSE Returned(None)

(***************************************************************************)
(* The extractors applied to transaction records drawn from bounded sets.  *)
(***************************************************************************)
TREASURY_WALLET == "T"
OtherAddresses == <<"A", "B", "C", "D">>

BaseBalance == 1000000
ScenarioAmount == LAMPORTS_PER_SOL \div 4
SmallAmount == 20000
NetworkFee == 5000

\* balance changes of the tracked account: around the dust threshold, and an
\* amount received or sent with and without the network fee on top
TrackedDeltas ==
    {0, DUST_LAMPORTS - 1, -(DUST_LAMPORTS - 1), DUST_LAMPORTS,
     -DUST_LAMPORTS, DUST_LAMPORTS + 1, -(DUST_LAMPORTS + 1),
     SmallAmount, -SmallAmount, -(SmallAmount + NetworkFee)}
\* balance changes of the other accounts; the smallest loss is below the
\* network fee
OtherDeltas ==
    {0, SmallAmount, -SmallAmount, -(SmallAmount + NetworkFee),
     -DUST_LAMPORTS}

IntTime(t) == [kind |-> "int", value |-> t]
AbsentTime == [kind |-> "absent", value |-> 0]
NullTime == [kind |-> "null", value |-> 0]

Key(w, a) == [wrapped |-> w, pubkey |-> a]

\* account keys of n accounts with the tracked one at tpos (0: not there)
KeysOf(n, tpos, w) ==
    [i \in 1..n |->
        IF i = tpos THEN Key(w, TREASURY_WALLET)
        ELSE Key(w, OtherAddresses[IF tpos # 0 /\ i > tpos THEN i - 1 ELSE i])]

WellFormed(keys, pre, post, fee) ==
    [meta |-> "present", shape |-> "ok", accountKeys |-> keys,
     preBalances |-> pre, postBalances |-> post, fee |-> fee,
     blockTime |-> IntTime(1), logMessages |-> "system",
     has_instructions |-> TRUE, instructions |-> <<>>, signature |-> "sig1"]

\* the balance changes of n accounts with the tracked one at tpos
DeltasFor(n, tpos) ==
    { d \in [1..n -> OtherDeltas \cup TrackedDeltas] :
        \A i \in 1..n : i # tpos => d[i] \in OtherDeltas }

\* records that differ in who holds which balance change
BalanceTxsOf(n) ==
    UNION { { WellFormed(KeysOf(n, tpos, w),
                         [i \in 1..n |-> BaseBalance],
                         [i \in 1..n |-> BaseBalance + d[i]], fee) :
                w \in BOOLEAN, fee \in {0, NetworkFee},
                d \in DeltasFor(n, tpos) } : tpos \in 0..n }

BalanceTxs == UNION { BalanceTxsOf(n) : n \in 1..MaxAccounts }

SysTransfer(src, dst, l) ==
    [parsed |-> TRUE, program |-> "system", type |-> "transfer",
     source |-> src, destination |-> dst, lamports |-> l]

Instrs ==
    { SysTransfer(p[1], p[2], l) :
        p \in {<<"A", "T">>, <<"T", "A">>, <<"B", "T">>, <<"T", "B">>,
               <<"A", "B">>},
        l \in {SmallAmount, ScenarioAmount} }
    \cup { [SysTransfer("A", "T", SmallAmount) EXCEPT !.parsed = FALSE],
           [SysTransfer("A", "T", SmallAmount) EXCEPT !.program = "spl-token"],
           [SysTransfer("A", "T", SmallAmount) EXCEPT !.type = "createAccount"] }

InstrSeqs == UNION { [1..m -> Instrs] : m \in 0..MaxInstr }

\* the concrete scenario of the specification: T receives 0.25 from A
ScenarioTx ==
    WellFormed(<<Key(TRUE, "T"), Key(TRUE, "A")>>,
               <<1000000000, 500000000>>, <<1250000000, 250000000>>,
               NetworkFee)

\* A pays SmallAmount to T and the fee on top
IncomingTx ==
    WellFormed(<<Key(TRUE, "A"), Key(TRUE, "T")>>,
               <<BaseBalance, BaseBalance>>,
               <<BaseBalance - SmallAmount - NetworkFee,
                 BaseBalance + SmallAmount>>, NetworkFee)

\* T pays SmallAmount to B and the fee on top
OutgoingTx ==
    WellFormed(<<Key(TRUE, "T"), Key(TRUE, "B")>>,
               <<BaseBalance, BaseBalance>>,
               <<BaseBalance - SmallAmount - NetworkFee,
                 BaseBalance + SmallAmount>>, NetworkFee)

\* a third account pays the fee: T sends exactly what B receives
RelayedTx ==
    WellFormed(<<Key(FALSE, "C"), Key(FALSE, "T"), Key(FALSE, "B")>>,
               <<BaseBalance, BaseBalance, BaseBalance>>,
               <<BaseBalance - NetworkFee, BaseBalance - SmallAmount,
                 BaseBalance + SmallAmount>>, NetworkFee)

Profiles == {ScenarioTx, IncomingTx, OutgoingTx, RelayedTx}

\* records that differ in their instructions
InstrTxs ==
    { [p EXCEPT !.instructions = is] : p \in Profiles, is \in InstrSeqs }

\* records that differ in the members that are there
MetaTxs ==
    { [p EXCEPT !.meta = m, !.shape = sh, !.blockTime = bt,
                !.logMessages = lg, !.has_instructions = hi,
                !.instructions = IF hi
                                 THEN <<SysTransfer("A", "T", ScenarioAmount)>>
                                 ELSE <<>>] :
        p \in Profiles,
        m \in {"absent", "null", "present"},
        sh \in {"ok", "no_balances", "no_transaction", "no_fee",
                "no_signatures"},
        bt \in {IntTime(1), IntTime(2), AbsentTime, NullTime},
        lg \in {"absent", "null", "no_system", "system"},
        hi \in BOOLEAN }

\* records whose accountKeys, preBalances and postBalances differ in length:
\* the tracked account received or sent SmallAmount, the others paid or
\* received it
UnequalLengths ==
    { l \in (1..MaxAccounts) \X (1..MaxAccounts) \X (1..MaxAccounts) :
        ~(l[1] = l[2] /\ l[2] = l[3]) }

MismatchTxsOf(l) ==
    { WellFormed(KeysOf(l[1], tpos, w),
                 [i \in 1..l[2] |-> BaseBalance],
                 [i \in 1..l[3] |-> BaseBalance + d[i]], NetworkFee) :
        w \in BOOLEAN, tpos \in 1..l[1],
        d \in [1..l[3] -> {SmallAmount, -(SmallAmount + NetworkFee)}] }

MismatchTxs == UNION { MismatchTxsOf(l) : l \in UnequalLengths }

TxInputs == BalanceTxs \cup InstrTxs \cup MetaTxs \cup MismatchTxs

\* how the comparisons of floats at exact equality may come out
Ties == [dust : BOOLEAN, match : SUBSET (1..MaxAccounts)]

ExtractInit ==
    /\ mode = "extract"
    /\ ConIdle
    /\ responses = <<>> /\ rpcPc = "idle" /\ rpcOut = NoCall
    /\ PagIdle
    /\ RunIdle
    /\ tx_data \in TxInputs
    /\ exFn = ""
    /\ exOut = Returned(None)

\* get_sol_transfers.py: extract_sol_transfers(tx_data, TREASURY_WALLET)
ExtractSolTransfers ==
    /\ mode = "extract" /\ exFn = ""
    /\ exFn' = "extract_sol_transfers"
    /\ \E tie \in Ties :
         exOut' = extract_sol_transfers(tx_data, TREASURY_WALLET, tie)
    /\ UNCHANGED <<mode, conVars, rpcVars, pagVars, runVars, tx_data>>

\* scripts/get_all_incoming.py: the loop body of find_incoming_transactions
FindIncomingOne ==
    /\ mode = "extract" /\ exFn = ""
    /\ exFn' = "find_incoming_transactions"
    /\ exOut' = find_incoming_one(tx_data, TREASURY_WALLET)
    /\ UNCHANGED <<mode, conVars, rpcVars, pagVars, runVars, tx_data>>

\* examine_all_txs.py: analyze_transaction(tx_data, TREASURY_WALLET)
AnalyzeTransaction ==
    /\ mode = "extract" /\ exFn = ""
    /\ exFn' = "analyze_transaction"
    /\ \E tie \in Ties :
         exOut' = analyze_transaction(tx_data, TREASURY_WALLET, tie)
    /\ UNCHANGED <<mode, conVars, rpcVars, pagVars, runVars, tx_data>>

ExtractNext ==
    \/ ExtractSolTransfers
    \/ FindIncomingOne
    \/ AnalyzeTransaction

SpecExtract == ExtractInit /\ [][ExtractNext]_vars

(***************************************************************************)
(* The run: get_sol_transfers.py main, from the signature list on.         *)
(* Signature records are numbered as the paginator returned them.          *)
(***************************************************************************)
MAX_TRANSACTIONS_TO_PROCESS == 500

ToProcessAll(sigs) == sigs

\* signatures[:MAX_TRANSACTIONS_TO_PROCESS]
ToProcess(sigs) == SubSeq(sigs, 1, Min(Len(sigs), MAX_TRANSACTIONS_TO_PROCESS))

\* T receives ScenarioAmount from A and from B in one transaction
DoubleTx ==
    [WellFormed(<<Key(TRUE, "A"), Key(TRUE, "B"), Key(TRUE, "T")>>,
                <<LAMPORTS_PER_SOL, LAMPORTS_PER_SOL, LAMPORTS_PER_SOL>>,
                <<LAMPORTS_PER_SOL - ScenarioAmount - NetworkFee,
                  LAMPORTS_PER_SOL - ScenarioAmount,
                  LAMPORTS_PER_SOL + 2 * ScenarioAmount>>, NetworkFee)
     EXCEPT !.instructions = <<SysTransfer("A", "T", ScenarioAmount),
                               SysTransfer("B", "T", ScenarioAmount)>>]

\* what getTransaction can answer for signature s: a record (of a transfer
\* in, a transfer out, a dust change, a transaction that does not touch the
\* treasury, a record with a null blockTime, a transfer in with its
\* instruction, two transfers in) or null (a pruned entry)
LedgerRecords(s) ==
    { [r EXCEPT !.signature = s] :
        r \in { IncomingTx, [IncomingTx EXCEPT !.blockTime = IntTime(2)],
                OutgoingTx,
                [IncomingTx EXCEPT !.postBalances[2] =
                                       BaseBalance + DUST_LAMPORTS - 1],
                [IncomingTx EXCEPT !.accountKeys[2] = Key(TRUE, "B")],
                [IncomingTx EXCEPT !.blockTime = NullTime],
                [ScenarioTx EXCEPT !.instructions =
                     <<SysTransfer("A", "T", ScenarioAmount)>>],
                DoubleTx } }

\* get_transaction_details(signature): None unless the response has a
\* "result" member, and then that member (null for a pruned entry)
TransactionDetails(s) ==
    UNION { IF o = "batch"
            THEN {None} \cup { Some(r) : r \in LedgerRecords(s) }
            ELSE {None} : o \in RpcOutcomes }

\* fetch_simple.py get_tx(sig): None after an exception, else the "result"
\* member of the body (None when it has none)
get_tx(s) == {None} \cup { Some(r) : r \in LedgerRecords(s) }

\* get_all_incoming.py: `tx_res.json().get("result")`; an exception of the
\* request is caught by the loop body and leaves nothing, like None
IncomingResult(s) == {None} \cup { Some(r) : r \in LedgerRecords(s) }

\* the provider serves the transactions of the newest MaxSigs signatures
\* only: getTransaction answers null for an older one
Pruned(signature) == signature > MaxSigs

\* what a fetch of `signature` can yield now: the ledger does not change, so
\* a signature fetched a second time yields the record it yielded before,
\* or nothing
Fetchable(all, signature) ==
    IF Pruned(signature) THEN {None}
    ELSE IF runHist.last.sig = signature /\ runHist.last.rec # None
    THEN {None, runHist.last.rec}
    ELSE all

LastAfter(signature, fetched) ==
    IF fetched # None THEN [sig |-> signature, rec |-> fetched]
    ELSE IF runHist.last.sig = signature THEN runHist.last
    ELSE [sig |-> signature, rec |-> None]

RECURSIVE InsertByTimeInFront(_, _)
InsertByTimeInFront(sorted, t) ==
    IF sorted = <<>> THEN <<t>>
    ELSE IF Head(sorted).timestamp > t.timestamp
    THEN <<Head(sorted)>> \o InsertByTimeInFront(Tail(sorted), t)
    ELSE <<t>> \o sorted

\* insert t into a list sorted by timestamp, newest first, behind the
\* records of the same timestamp
RECURSIVE InsertByTime(_, _)
InsertByTime(sorted, t) ==
    IF sorted = <<>> THEN <<t>>
    ELSE IF Head(sorted).timestamp >= t.timestamp
    THEN <<Head(sorted)>> \o InsertByTime(Tail(sorted), t)
    ELSE <<t>> \o sorted

KeepArrivalOrder(ts) == ts

\* sol_transfers.sort(key=lambda x: x["timestamp"], reverse=True): a stable
\* sort, records of equal timestamp keep their order
RECURSIVE SortNewestFirst(_)
SortNewestFirst(ts) ==
    IF ts = <<>> THEN <<>>
    ELSE InsertByTime(SortNewestFirst(SubSeq(ts, 1, Len(ts) - 1)), ts[Len(ts)])

\* sum(t["balance_change"] for t in sol_transfers if t["balance_change"] > 0)
RECURSIVE TotalIn(_)
TotalIn(ts) ==
    IF ts = <<>> THEN 0
    ELSE (IF Head(ts).balance_change > 0 THEN Head(ts).balance_change ELSE 0)
         + TotalIn(Tail(ts))

RECURSIVE TotalOutSigned(_)
TotalOutSigned(ts) ==
    IF ts = <<>> THEN 0
    ELSE (IF Head(ts).balance_change < 0 THEN Head(ts).balance_change ELSE 0)
         + TotalOutSigned(Tail(ts))

\* sum(abs(t["balance_change"]) for t in sol_transfers
\*     if t["balance_change"] < 0)
RECURSIVE TotalOut(_)
TotalOut(ts) ==
    IF ts = <<>> THEN 0
    ELSE (IF Head(ts).balance_change < 0 THEN Abs(Head(ts).balance_change)
          ELSE 0)
         + TotalOut(Tail(ts))

RunScripts ==
    {"get_sol_transfers", "fetch_simple", "get_all_incoming",
     "examine_all_txs"}

\* the signature lists a provider can hand over: numbered newest first, a
\* record possibly repeated at the seam of two pages
SignatureLists ==
    { q \in UNION { [1..n -> 1..MaxSigs] : n \in 0..MaxSigs } :
        /\ Len(q) > 0 => q[1] = 1
        /\ \A i \in 1..(Len(q) - 1) : q[i + 1] - q[i] \in {0, 1} }

RunInit ==
    /\ mode = "run"
    /\ ConIdle
    /\ responses = <<>> /\ rpcPc = "idle" /\ rpcOut = NoCall
    /\ PagIdle
    /\ ExIdle
    /\ runScript \in RunScripts
    /\ signatures \in SignatureLists
    /\ runIdx = 0
    /\ sol_transfers = <<>>
    /\ processed = 0
    /\ totals = [total_in |-> 0, total_out |-> 0]
    /\ runPc = "loop"
    /\ runHist = NoRunHist

RunPcAfterNoneBreak == "done"

\* `if not tx_data: continue`
RunPcAfterNone == "loop"

\* get_sol_transfers.py main: one iteration of
\* `for sig_data in signatures[:MAX_TRANSACTIONS_TO_PROCESS]`
RunStep ==
    /\ mode = "run" /\ runPc = "loop"
    /\ runScript = "get_sol_transfers"
    /\ runIdx < Len(ToProcess(signatures))
    /\ LET signature == ToProcess(signatures)[runIdx + 1]
       IN  \E fetched \in Fetchable(TransactionDetails(signature), signature) :
             /\ runIdx' = runIdx + 1
             /\ IF fetched = None
                THEN /\ runPc' = RunPcAfterNone
                     /\ runHist' = [runHist EXCEPT
                            !.fetched = Append(@, signature),
                            !.noneAt = @ \cup {runIdx + 1},
                            !.last = LastAfter(signature, fetched)]
                     /\ UNCHANGED <<sol_transfers, processed>>
                ELSE \E tie \in Ties :
                       LET out == extract_sol_transfers(fetched[1],
                                      TREASURY_WALLET, tie)
                       IN  IF out.raised
                           THEN /\ runPc' = "crashed"
                                /\ runHist' = [runHist EXCEPT
                                       !.fetched = Append(@, signature),
                                       !.last = LastAfter(signature, fetched)]
                                /\ UNCHANGED <<sol_transfers, processed>>
                           ELSE /\ runPc' = "loop"
                                /\ sol_transfers' = sol_transfers \o out.value
                                /\ processed' = processed + 1
                                /\ runHist' = [runHist EXCEPT
                                       !.fetched = Append(@, signature),
                                       !.yielded = @ \o
                                           (IF out.value = None THEN <<>>
                                            ELSE <<signature>>),
                                       !.paced = @ \cup {runIdx + 1},
                                       !.last = LastAfter(signature, fetched)]
    /\ UNCHANGED <<mode, conVars, rpcVars, pagVars, exVars, runScript, signatures,
                   totals>>

\* get_sol_transfers.py main after the loop: the sort and the totals
RunFinish ==
    /\ mode = "run" /\ runPc = "loop"
    /\ runScript = "get_sol_transfers"
    /\ runIdx = Len(ToProcess(signatures))
    /\ sol_transfers' = SortNewestFirst(sol_transfers)
    /\ totals' = [total_in |-> TotalIn(SortNewestFirst(sol_transfers)),
                  total_out |-> TotalOut(SortNewestFirst(sol_transfers))]
    /\ runPc' = "done"
    /\ UNCHANGED <<mode, conVars, rpcVars, pagVars, exVars, runScript, signatures,
                   runIdx, processed, runHist>>

(***************************************************************************)
(* scripts/fetch_simple.py: the main loop.  `total` is kept in             *)
(* totals.total_in, `contributions` in sol_transfers.                      *)
(***************************************************************************)
\* AMOUNTS = [0.25, 0.5, 1.0, 2.0], in lamports
AMOUNTS == {250000000, 500000000, 1000000000, 2000000000}

\* the three tests an instruction passes before it is recorded
SimpleMatches(inst) ==
    /\ inst.parsed /\ inst.type = "transfer"
    /\ inst.destination = TREASURY_WALLET
    /\ inst.lamports \in AMOUNTS

\* `for inst in tx["transaction"]["message"]["instructions"]`: one record
\* for every instruction that passes
RECURSIVE SimpleContributions(_, _)
SimpleContributions(instrs, sig) ==
    IF instrs = <<>> THEN <<>>
    ELSE (IF SimpleMatches(Head(instrs))
          THEN <<[sender |-> Head(instrs).source,
                  amount |-> Head(instrs).lamports,
                  signature |-> sig]>>
          ELSE <<>>)
         \o SimpleContributions(Tail(instrs), sig)

RECURSIVE SumAmounts(_)
SumAmounts(cs) ==
    IF cs = <<>> THEN 0 ELSE Head(cs).amount + SumAmounts(Tail(cs))

\* one iteration of `for i, sig_data in enumerate(sigs)`
SimpleStep ==
    /\ mode = "run" /\ runPc = "loop"
    /\ runScript = "fetch_simple"
    /\ runIdx < Len(signatures)
    /\ LET sig == signatures[runIdx + 1]
       IN  \E fetched \in Fetchable(get_tx(sig), sig) :
             /\ runIdx' = runIdx + 1
             /\ IF fetched = None
                THEN /\ runPc' = "loop"
                     /\ runHist' = [runHist EXCEPT
                            !.fetched = Append(@, sig),
                            !.noneAt = @ \cup {runIdx + 1},
                            !.last = LastAfter(sig, fetched)]
                     /\ UNCHANGED <<sol_transfers, totals>>
                ELSE IF fetched[1].shape = "no_transaction"
                        \/ ~fetched[1].has_instructions
                THEN /\ runPc' = "crashed"
                     /\ runHist' = [runHist EXCEPT
                            !.fetched = Append(@, sig),
                            !.last = LastAfter(sig, fetched)]
                     /\ UNCHANGED <<sol_transfers, totals>>
                ELSE LET found == SimpleContributions(fetched[1].instructions,
                                                      sig)
                     IN  /\ runPc' = "loop"
                         /\ sol_transfers' = sol_transfers \o found
                         /\ totals' = [totals EXCEPT
                                !.total_in = @ + SumAmounts(found)]
                         /\ runHist' = [runHist EXCEPT
                                !.fetched = Append(@, sig),
                                !.yielded = @ \o [k \in 1..Len(found) |-> sig],
                                !.paced = @ \cup {runIdx + 1},
                                !.last = LastAfter(sig, fetched)]
    /\ UNCHANGED <<mode, conVars, rpcVars, pagVars, exVars, runScript, signatures,
                   processed>>

\* after the loop the summary is printed and the file written
SimpleFinish ==
    /\ mode = "run" /\ runPc = "loop"
    /\ runScript = "fetch_simple"
    /\ runIdx = Len(signatures)
    /\ runPc' = "done"
    /\ UNCHANGED <<mode, conVars, rpcVars, pagVars, exVars, runScript, signatures,
                   runIdx, sol_transfers, processed, totals, runHist>>

(***************************************************************************)
(* scripts/get_all_incoming.py: find_incoming_transactions and the main    *)
(* block.  `total_sol` is kept in totals.total_in, `incoming_txs` in       *)
(* sol_transfers.                                                          *)
(***************************************************************************)
\* a timestamp that is None
NullTs == -1

\* `sig_data.get("blockTime", 0)`: the signature record carries the block
\* time of its transaction
SigBlockTime(tx) ==
    IF tx.blockTime.kind = "int" THEN tx.blockTime.value
    ELSE IF tx.blockTime.kind = "absent" THEN 0
    ELSE NullTs

\* insert t into a list sorted by amount, largest first, behind the records
\* of the same amount
RECURSIVE InsertByAmount(_, _)
InsertByAmount(sorted, t) ==
    IF sorted = <<>> THEN <<t>>
    ELSE IF Head(sorted).amount >= t.amount
    THEN <<Head(sorted)>> \o InsertByAmount(Tail(sorted), t)
    ELSE <<t>> \o sorted

\* incoming.sort(key=lambda x: x["amount"], reverse=True)
RECURSIVE SortLargestFirst(_)
SortLargestFirst(ts) ==
    IF ts = <<>> THEN <<>>
    ELSE InsertByAmount(SortLargestFirst(SubSeq(ts, 1, Len(ts) - 1)),
                        ts[Len(ts)])

\* whether the iteration reaches a sleep: `time.sleep(0.2)` at the end of
\* the try block, which both `continue` statements skip, or `time.sleep(1)`
\* in the handler when the request or the body raised (`excepted`: the
\* request itself raised, which leaves no record either)
IncomingSleeps(fetched, excepted) ==
    IF fetched = None THEN excepted
    ELSE LET tx == fetched[1]
         IN  /\ tx.meta = "present"
             /\ \/ tx.shape = "no_transaction"
                \/ IncomingTreasuryIndex(tx.accountKeys, TREASURY_WALLET) # 0

\* one iteration of `for i, sig_data in enumerate(signatures)`
IncomingStep ==
    /\ mode = "run" /\ runPc = "loop"
    /\ runScript = "get_all_incoming"
    /\ runIdx < Len(signatures)
    /\ LET sig == signatures[runIdx + 1]
       IN  \E fetched \in Fetchable(IncomingResult(sig), sig),
              excepted \in BOOLEAN :
             LET out == IF fetched = None THEN Returned(None)
                        ELSE find_incoming_one(fetched[1], TREASURY_WALLET)
                 found == IF out.value = None THEN <<>>
                          ELSE <<[sender |-> out.value[1].sender,
                                  amount |-> out.value[1].amount,
                                  timestamp |-> SigBlockTime(fetched[1]),
                                  signature |-> sig]>>
             IN  /\ runIdx' = runIdx + 1
                 /\ runPc' = "loop"
                 /\ sol_transfers' = sol_transfers \o found
                 /\ fetched # None => ~excepted
                 /\ runHist' = [runHist EXCEPT
                        !.fetched = Append(@, sig),
                        !.noneAt = IF fetched = None
                                   THEN @ \cup {runIdx + 1} ELSE @,
                        !.yielded = @ \o [k \in 1..Len(found) |-> sig],
                        !.paced = IF IncomingSleeps(fetched, excepted)
                                  THEN @ \cup {runIdx + 1} ELSE @,
                        !.last = LastAfter(sig, fetched)]
    /\ UNCHANGED <<mode, conVars, rpcVars, pagVars, exVars, runScript, signatures,
                   processed, totals>>

\* the main block after find_incoming_transactions: the total and the sort
IncomingFinish ==
    /\ mode = "run" /\ runPc = "loop"
    /\ runScript = "get_all_incoming"
    /\ runIdx = Len(signatures)
    /\ totals' = [totals EXCEPT !.total_in = SumAmounts(sol_transfers)]
    /\ sol_transfers' = SortLargestFirst(sol_transfers)
    /\ runPc' = "done"
    /\ UNCHANGED <<mode, conVars, rpcVars, pagVars, exVars, runScript, signatures,
                   runIdx, processed, runHist>>

(***************************************************************************)
(* examine_all_txs.py main.  `transactions` is kept in sol_transfers,      *)
(* total_incoming and total_outgoing in totals, the list of recent         *)
(* incoming transactions that is printed in runHist.shown.                 *)
(***************************************************************************)
\* get_transaction_details(signature): response.value, None after an
\* exception
ExamineDetails(s) == {None} \cup { Some(r) : r \in LedgerRecords(s) }

\* tx_data.block_time: an int or None
BlockTimeOf(bt) == IF bt.kind = "int" THEN bt.value ELSE NullTs

\* what the entries of analysis["transfers"] add to total_incoming
RECURSIVE TreasuryIncoming(_)
TreasuryIncoming(transfers) ==
    IF transfers = <<>> THEN 0
    ELSE (IF Head(transfers).is_treasury /\ Head(transfers).change_sol > 0
          THEN Head(transfers).change_sol ELSE 0)
         + TreasuryIncoming(Tail(transfers))

\* what they add to total_outgoing
RECURSIVE TreasuryOutgoing(_)
TreasuryOutgoing(transfers) ==
    IF transfers = <<>> THEN 0
    ELSE (IF Head(transfers).is_treasury /\ ~(Head(transfers).change_sol > 0)
          THEN Abs(Head(transfers).change_sol) ELSE 0)
         + TreasuryOutgoing(Tail(transfers))

\* the entries of incoming_txs one analysis gives
RECURSIVE IncomingOf(_, _)
IncomingOf(analysis, transfers) ==
    IF transfers = <<>> THEN <<>>
    ELSE (IF Head(transfers).is_treasury /\ Head(transfers).change_sol > 0
          THEN <<[signature |-> analysis.signature,
                  timestamp |-> BlockTimeOf(analysis.block_time),
                  amount |-> Head(transfers).change_sol]>>
          ELSE <<>>)
         \o IncomingOf(analysis, Tail(transfers))

RECURSIVE IncomingTxs(_)
IncomingTxs(transactions) ==
    IF transactions = <<>> THEN <<>>
    ELSE IncomingOf(Head(transactions), Head(transactions).transfers)
         \o IncomingTxs(Tail(transactions))

\* `x["timestamp"] if x["timestamp"] else 0`
TimestampOrZero(x) == IF x.timestamp = NullTs THEN 0 ELSE x.timestamp

RECURSIVE InsertByTimeOrZero(_, _)
InsertByTimeOrZero(sorted, t) ==
    IF sorted = <<>> THEN <<t>>
    ELSE IF TimestampOrZero(Head(sorted)) >= TimestampOrZero(t)
    THEN <<Head(sorted)>> \o InsertByTimeOrZero(Tail(sorted), t)
    ELSE <<t>> \o sorted

\* incoming_txs.sort(key=lambda x: x["timestamp"] if x["timestamp"] else 0,
\*                   reverse=True)
RECURSIVE SortRecentFirst(_)
SortRecentFirst(ts) ==
    IF ts = <<>> THEN <<>>
    ELSE InsertByTimeOrZero(SortRecentFirst(SubSeq(ts, 1, Len(ts) - 1)),
                            ts[Len(ts)])

\* one iteration of `for i, sig in enumerate(signatures[:500])`
ExamineStep ==
    /\ mode = "run" /\ runPc = "loop"
    /\ runScript = "examine_all_txs"
    /\ runIdx < Len(ToProcess(signatures))
    /\ LET sig == ToProcess(signatures)[runIdx + 1]
       IN  \E fetched \in Fetchable(ExamineDetails(sig), sig), tie \in Ties :
             LET out == IF fetched = None THEN Returned(None)
                        ELSE analyze_transaction(fetched[1], TREASURY_WALLET,
                                                 tie)
             IN  /\ runIdx' = runIdx + 1
                 /\ runPc' = IF out.raised THEN "crashed" ELSE "loop"
                 /\ sol_transfers' = sol_transfers \o out.value
                 /\ totals' =
                      IF out.value = None THEN totals
                      ELSE [total_in |-> totals.total_in
                                + TreasuryIncoming(out.value[1].transfers),
                            total_out |-> totals.total_out
                                + TreasuryOutgoing(out.value[1].transfers)]
                 /\ runHist' = [runHist EXCEPT
                        !.fetched = Append(@, sig),
                        !.noneAt = IF fetched = None
                                   THEN @ \cup {runIdx + 1} ELSE @,
                        !.yielded = @ \o (IF out.value = None THEN <<>>
                                          ELSE <<sig>>),
                        !.paced = IF out.raised THEN @
                                  ELSE @ \cup {runIdx + 1},
                        !.last = LastAfter(sig, fetched)]
    /\ UNCHANGED <<mode, conVars, rpcVars, pagVars, exVars, runScript, signatures,
                   processed>>

\* after the loop: the file is written, then the incoming transactions are
\* listed most recent first
ExamineFinish ==
    /\ mode = "run" /\ runPc = "loop"
    /\ runScript = "examine_all_txs"
    /\ runIdx = Len(ToProcess(signatures))
    /\ runHist' = [runHist EXCEPT
           !.shown = SortRecentFirst(IncomingTxs(sol_transfers))]
    /\ runPc' = "done"
    /\ UNCHANGED <<mode, conVars, rpcVars, pagVars, exVars, runScript, signatures,
                   runIdx, sol_transfers, processed, totals>>

RunNext ==
    \/ RunStep
    \/ RunFinish
    \/ SimpleStep
    \/ SimpleFinish
    \/ IncomingStep
    \/ IncomingFinish
    \/ ExamineStep
    \/ ExamineFinish

SpecRun == RunInit /\ [][RunNext]_vars

(***************************************************************************)
(* Long runs: signature lists around the processing bound of the script.   *)
(* get_all_txn_data.py main keeps its `all_transactions` in sol_transfers. *)
(***************************************************************************)
\* the slice bound of get_all_txn_data: "limit to 100 to avoid timeouts"
RECENT_LIMIT == 100

\* recent_signatures = all_signatures[:100]
recent_signatures(all) == SubSeq(all, 1, Min(Len(all), RECENT_LIMIT))

\* get_all_txn_data.get_transaction(signature): response.value, None after
\* an exception
get_transaction(s) == {None} \cup { Some(r) : r \in LedgerRecords(s) }

\* get_all_txn_data.py main: one iteration of
\* `for i, sig_data in enumerate(recent_signatures)`
TxnDataStep ==
    /\ mode = "run" /\ runPc = "loop"
    /\ runScript = "get_all_txn_data"
    /\ runIdx < Len(recent_signatures(signatures))
    /\ LET sig == recent_signatures(signatures)[runIdx + 1]
       IN  \E fetched \in Fetchable(get_transaction(sig), sig) :
             /\ runIdx' = runIdx + 1
             /\ sol_transfers' =
                  IF fetched = None THEN sol_transfers
                  ELSE Append(sol_transfers,
                              [signature |-> sig,
                               block_time |-> SigBlockTime(fetched[1])])
             /\ runHist' = [runHist EXCEPT
                    !.fetched = Append(@, sig),
                    !.noneAt = IF fetched = None
                               THEN @ \cup {runIdx + 1} ELSE @,
                    !.yielded = @ \o (IF fetched = None THEN <<>>
                                      ELSE <<sig>>),
                    !.paced = @ \cup {runIdx + 1},
                    !.last = LastAfter(sig, fetched)]
    /\ UNCHANGED <<mode, conVars, rpcVars, pagVars, exVars, runScript, signatures,
                   processed, totals, runPc>>

\* after the loop: all_raw_txs.json is written
TxnDataFinish ==
    /\ mode = "run" /\ runPc = "loop"
    /\ runScript = "get_all_txn_data"
    /\ runIdx = Len(recent_signatures(signatures))
    /\ runPc' = "done"
    /\ UNCHANGED <<mode, conVars, rpcVars, pagVars, exVars, runScript, signatures,
                   runIdx, sol_transfers, processed, totals, runHist>>

MaxOver == 1

\* signature lists of about b records, as the paginator returned them: the
\* newest transaction is still served, the older ones are pruned
LongLists(b) ==
    { [i \in 1..n |-> IF i = 1 THEN 1 ELSE MaxSigs + i] :
        n \in (b - 1)..(b + MaxOver) }

BoundedScripts == {"get_sol_transfers", "examine_all_txs", "get_all_txn_data"}

RunLongInit ==
    /\ mode = "run"
    /\ ConIdle
    /\ responses = <<>> /\ rpcPc = "idle" /\ rpcOut = NoCall
    /\ PagIdle
    /\ ExIdle
    /\ runScript \in BoundedScripts
    /\ signatures \in {<<1>>} \cup
          LongLists(IF runScript = "get_all_txn_data" THEN RECENT_LIMIT
                    ELSE MAX_TRANSACTIONS_TO_PROCESS)
    /\ runIdx = 0
    /\ sol_transfers = <<>>
    /\ processed = 0
    /\ totals = [total_in |-> 0, total_out |-> 0]
    /\ runPc = "loop"
    /\ runHist = NoRunHist

RunLongNext ==
    \/ RunStep
    \/ RunFinish
    \/ ExamineStep
    \/ ExamineFinish
    \/ TxnDataStep
    \/ TxnDataFinish

SpecRunLong == RunLongInit /\ [][RunLongNext]_vars

(***************************************************************************)
(* scripts/fetch_contributions.py: pagination, processing and the early    *)
(* stop at the target total.  Contribution amounts and total_sol are in    *)
(* quarters of a SOL: all of VALID_AMOUNTS and TARGET_TOTAL are multiples  *)
(* of 0.25 and their float sums are exact.                                 *)
(***************************************************************************)
\* VALID_AMOUNTS = [0.25, 0.5, 1.0, 2.0]
VALID_AMOUNTS == {1, 2, 4, 8}
\* TARGET_TOTAL = 24.25
TARGET_TOTAL == 97
max_batches == 20

\* `sol_amount = lamports / 1e9`, as a number of quarters when it is one of
\* VALID_AMOUNTS and 0 when it is not
ValidQuarters(lamports) ==
    IF \E q \in VALID_AMOUNTS : lamports = q * (LAMPORTS_PER_SOL \div 4)
    THEN lamports \div (LAMPORTS_PER_SOL \div 4)
    ELSE 0

\* the instruction passes the tests of lines 83-89
ContributionMatches(inst) ==
    /\ inst.parsed /\ inst.type = "transfer"
    /\ inst.destination = TREASURY_WALLET
    /\ ValidQuarters(inst.lamports) # 0

\* the instruction loop returns at the first instruction that passes
FirstContribution(instrs, sig, blockTime) ==
    LET hits == { k \in 1..Len(instrs) : ContributionMatches(instrs[k]) }
    IN  IF hits = {} THEN None
        ELSE LET k == CHOOSE k \in hits : \A j \in hits : k <= j
             IN  Some([sender |-> instrs[k].source,
                       amount |-> ValidQuarters(instrs[k].lamports),
                       timestamp |-> blockTime,
                       signature |-> sig])

\* process_transaction(tx_data, sig, blockTime); tx is None or Some(record)
process_transaction(tx, sig, blockTime) ==
    IF tx = None THEN Returned(None)
    ELSE IF tx[1].meta # "present" THEN Returned(None)
    ELSE IF tx[1].shape = "no_balances" THEN Returned(None)
    ELSE IF tx[1].shape = "no_transaction" THEN Raised
    ELSE
    LET keys == tx[1].accountKeys
        hits == { i \in 1..Len(keys) :
                    keys[i].wrapped /\ keys[i].pubkey = TREASURY_WALLET }
        bare == { i \in 1..Len(keys) : ~keys[i].wrapped }
        treasury_index == IF hits = {} THEN 0
                          ELSE CHOOSE i \in hits : \A j \in hits : i <= j
    IN
    \* account.get("pubkey") on a key that is a string raises
    IF \E i \in bare : treasury_index = 0 \/ i < treasury_index THEN Raised
    ELSE IF treasury_index = 0 THEN Returned(None)
    ELSE IF /\ treasury_index <= Len(tx[1].postBalances)
            /\ treasury_index <= Len(tx[1].preBalances)
            /\ tx[1].postBalances[treasury_index]
                   <= tx[1].preBalances[treasury_index]
    THEN Returned(None)
    ELSE IF ~tx[1].has_instructions THEN Raised
    ELSE Returned(FirstContribution(tx[1].instructions, sig, blockTime))

\* bounds of the contribution run
MaxHistory == 16
MaxPage == 2
MaxFailures == 1

\* A sends q quarters of a SOL to T and pays the fee
Contribution(q) ==
    [WellFormed(<<Key(TRUE, "A"), Key(TRUE, "T")>>,
                <<2 * LAMPORTS_PER_SOL + NetworkFee, 0>>,
                <<2 * LAMPORTS_PER_SOL - q * (LAMPORTS_PER_SOL \div 4),
                  q * (LAMPORTS_PER_SOL \div 4)>>, NetworkFee)
     EXCEPT !.instructions =
                <<SysTransfer("A", "T", q * (LAMPORTS_PER_SOL \div 4))>>]

\* what the history can hold besides contributions of 2 SOL: an entry whose
\* fetch yields nothing, a payment out, a deposit of no valid amount, a
\* contribution with a null blockTime, one with bare-string keys, one of a
\* quarter of a SOL
OddEntries ==
    { None, Some(OutgoingTx),
      Some([IncomingTx EXCEPT !.instructions =
                <<SysTransfer("A", "T", SmallAmount)>>]),
      Some([Contribution(8) EXCEPT !.blockTime = NullTime]),
      Some([Contribution(8) EXCEPT
                !.accountKeys = <<Key(FALSE, "A"), Key(FALSE, "T")>>]),
      Some(Contribution(1)) }

\* histories of contributions of 2 SOL with at most one other entry
Ledgers ==
    { [i \in 1..n |-> Some(Contribution(8))] : n \in 0..MaxHistory }
    \cup { [i \in 1..n |-> IF i = p[1] THEN p[2] ELSE Some(Contribution(8))] :
             n \in 1..MaxHistory, p \in (1..MaxHistory) \X OddEntries }

ContribInit ==
    /\ mode = "contrib"
    /\ responses = <<>> /\ rpcPc = "idle" /\ rpcOut = NoCall
    /\ PagIdle
    /\ ExIdle
    /\ RunIdle
    /\ ledger \in Ledgers
    /\ page \in 1..MaxPage
    /\ before_signature = 0
    /\ batch_count = 0
    /\ signatures_data = <<>>
    /\ entryIdx = 0
    /\ all_contributions = <<>>
    /\ total_sol = 0
    /\ processed_count = 0
    /\ conPc = "while"
    /\ conHist = NoConHist

\* get_signatures(address, limit=50, before): the records behind the cursor
\* that the provider returns, or [] after an exception or a body without
\* "result"
SignaturesBehind(b) ==
    [i \in 1..Min(Min(page, 50), Len(ledger) - b) |-> b + i]

\* `entry.get("blockTime", 0)`: the block time of the entry's transaction
EntryBlockTime(sig) ==
    IF ledger[sig] = None THEN 0 ELSE SigBlockTime(ledger[sig][1])

BreakNever(total) == FALSE

\* `if total_sol >= TARGET_TOTAL: break`
BreakEarly(total) == total >= TARGET_TOTAL

\* the provider lets a get_signatures call down at most MaxFailures times,
\* or every time from the first call on
MayFail(failures) == failures < MaxFailures \/ failures = batch_count

WhileConditionOffByOne ==
    total_sol < TARGET_TOTAL /\ batch_count <= max_batches

\* `while total_sol < TARGET_TOTAL and batch_count < max_batches`
WhileCondition == total_sol < TARGET_TOTAL /\ batch_count < max_batches

\* the head of one iteration of the while loop: the next batch is asked for
ContribBatch ==
    /\ mode = "contrib" /\ conPc = "while"
    /\ WhileCondition
    /\ batch_count' = batch_count + 1
    /\ \E fails \in {FALSE} \cup
                    (IF MayFail(conHist.failures) THEN {TRUE} ELSE {}) :
         LET got == IF fails THEN <<>>
                    ELSE SignaturesBehind(before_signature)
         IN  IF got = <<>>
             THEN \* `continue`: wait a second and try again
                  /\ conHist' = [conHist EXCEPT
                         !.failures = IF fails THEN @ + 1 ELSE @,
                         !.empties = @ + 1]
                  /\ UNCHANGED <<before_signature, signatures_data, entryIdx,
                                 conPc>>
             ELSE /\ before_signature' = got[Len(got)]
                  /\ signatures_data' = got
                  /\ entryIdx' = 0
                  /\ conPc' = "for"
                  /\ UNCHANGED conHist
    /\ UNCHANGED <<mode, rpcVars, pagVars, exVars, runVars, ledger, page,
                   all_contributions, total_sol, processed_count>>

\* one iteration of `for entry in signatures_data`
ContribEntry ==
    /\ mode = "contrib" /\ conPc = "for"
    /\ entryIdx < Len(signatures_data)
    /\ processed_count' = processed_count + 1
    /\ entryIdx' = entryIdx + 1
    /\ LET sig == signatures_data[entryIdx + 1]
           block_time == EntryBlockTime(sig)
           out == process_transaction(ledger[sig], sig, block_time)
           rest == IF entryIdx + 1 < Len(signatures_data) THEN "for"
                   ELSE "while"
       IN  IF out.raised
           THEN /\ conPc' = "crashed"
                /\ UNCHANGED <<all_contributions, total_sol>>
           ELSE IF out.value = None
           THEN /\ conPc' = rest
                /\ UNCHANGED <<all_contributions, total_sol>>
           ELSE /\ all_contributions' = all_contributions \o out.value
                /\ total_sol' = total_sol + out.value[1].amount
                /\ conPc' = IF BreakEarly(total_sol + out.value[1].amount)
                            THEN "while" ELSE rest
    /\ UNCHANGED <<mode, rpcVars, pagVars, exVars, runVars, ledger, page,
                   before_signature, batch_count, signatures_data, conHist>>

\* comparing None with a timestamp, which sorting two or more records of
\* which one has no timestamp does, raises TypeError
SortRaises(ts) ==
    Len(ts) >= 2 /\ \E i \in 1..Len(ts) : ts[i].timestamp = NullTs

\* after the loop:
\* all_contributions.sort(key=lambda x: x.get("timestamp", 0), reverse=True)
ContribFinish ==
    /\ mode = "contrib" /\ conPc = "while"
    /\ ~WhileCondition
    /\ IF SortRaises(all_contributions)
       THEN conPc' = "crashed" /\ UNCHANGED all_contributions
       ELSE /\ conPc' = "done"
            /\ all_contributions' = SortNewestFirst(all_contributions)
    /\ UNCHANGED <<mode, rpcVars, pagVars, exVars, runVars, ledger, page,
                   before_signature, batch_count, signatures_data, entryIdx,
                   total_sol, processed_count, conHist>>

ContribNext ==
    \/ ContribBatch
    \/ ContribEntry
    \/ ContribFinish

SpecContrib == ContribInit /\ [][ContribNext]_vars

\* the script is one sequential process and each of its network calls has
\* `timeout=10`: a step that is possible is taken
MaxShortHistory == 4

\* histories too short for the target total to be reached
ShortLedgers == { l \in Ledgers : Len(l) <= MaxShortHistory }

ContribFairInit == ContribInit /\ ledger \in ShortLedgers

SpecContribFair ==
    ContribFairInit /\ [][ContribNext]_vars /\ WF_vars(ContribNext)

(***************************************************************************)
(* The failure classes the specification names.                            *)
(***************************************************************************)
\* connection error, timeout or a non-2xx HTTP status
TransportFailure(r) == r.raises \/ ~r.http_ok

\* a 2xx response whose JSON body carries "result" and no "error"
ValidResult(r) == ~r.raises /\ r.http_ok /\ r.body = "result"

NumEndpoints == Len(responses)

\* C1: if the first E-1 endpoints fail with a transport failure and the last
\* returns a valid result, one call returns that result after exactly E
\* attempts.
C1_Failover ==
    (/\ rpcPc = "returned"
     /\ \A i \in 1..(NumEndpoints - 1) : TransportFailure(responses[i])
     /\ ValidResult(responses[NumEndpoints]))
    => /\ rpcOut.ret = Some(responses[NumEndpoints])
       /\ Len(rpcOut.tried) = NumEndpoints

\* C2: a call never makes more than len(endpoints) attempts, attempt i goes
\* to endpoints[i mod len(endpoints)], and a call that returns failure has
\* made exactly len(endpoints) attempts.
C2_FailureOnlyAfterAllTried ==
    rpcPc = "returned" =>
        /\ Len(rpcOut.tried) \in 1..NumEndpoints
        /\ \A i \in 1..Len(rpcOut.tried) :
               rpcOut.tried[i] = (i - 1) % NumEndpoints
        /\ rpcOut.ret = None => Len(rpcOut.tried) = NumEndpoints

\* a call over several endpoints that all fail returns failure
C2_Witness ==
    /\ rpcPc = "returned"
    /\ NumEndpoints >= 3
    /\ rpcOut.ret = None
    /\ \E i \in 1..NumEndpoints : HasError(responses[i])
    /\ \E i \in 1..NumEndpoints : responses[i].raises

\* C3: a non-2xx response always leads to rotation (or to terminal failure
\* on the last endpoint) and its body is never returned to the caller.
C3_NonOkRotates ==
    rpcPc = "returned" =>
        /\ rpcOut.ret # None => rpcOut.ret[1].http_ok
        /\ \A i \in 1..Len(rpcOut.tried) :
               ~responses[rpcOut.tried[i] + 1].http_ok =>
                   \/ i < Len(rpcOut.tried)
                   \/ (i = NumEndpoints /\ rpcOut.ret = None)

(***************************************************************************)
(* Pagination claims.                                                      *)
(***************************************************************************)
FullHistory == [i \in 1..K |-> i]

\* C5: against a fixed history of K signatures served by a provider that
\* honours limit and before, the paginator returns exactly the K records,
\* each once and newest first, for every batch_size.
C5_ReturnsExactlyK ==
    (/\ mode = "paginate"
     /\ script \in {"get_sol_transfers", "get_all_incoming", "get_all_txn_data"}
     /\ pagPc = "done"
     /\ pagHist.clean)
    => all_signatures = FullHistory

\* C6: once a getSignaturesForAddress call has failed, the paginator issues
\* no further call and returns exactly the records of the batches retrieved
\* before the failure.
C6_StopsOnFailure ==
    (mode = "paginate" /\ pagHist.failed)
    => /\ pagPc = "done"
       /\ pagHist.afterFail = 0
       /\ all_signatures = [i \in 1..pagHist.received |-> i]

\* C6 (amended): get_sol_transfers, examine_all_txs and get_all_txn_data stop
\* at the first failed call and return exactly the records of the batches
\* retrieved before it; get_all_incoming goes on after a failed call, with
\* the cursor unchanged, until its MAX_BATCHES iterations are used or a
\* call brings nothing, and returns every batch it received.
C6_StopsOnFailureExceptIncoming ==
    mode = "paginate" =>
        /\ all_signatures = [i \in 1..pagHist.received |-> i]
        /\ (pagHist.failed /\ script # "get_all_incoming")
               => (pagPc = "done" /\ pagHist.afterFail = 0)
        /\ (pagHist.failed /\ script = "get_all_incoming" /\ pagPc = "loop")
               => iter < MAX_BATCHES

\* get_sol_transfers stopped by a failed call after two full batches
C6_Witness ==
    /\ mode = "paginate"
    /\ script = "get_sol_transfers"
    /\ pagPc = "done"
    /\ pagHist.failed
    /\ pagHist.calls = 3
    /\ Len(all_signatures) = 2 * batch_size
    /\ Len(all_signatures) < K

(***************************************************************************)
(* Extraction claims.                                                      *)
(***************************************************************************)
TrackedAbsent(tx) ==
    \A i \in 1..Len(tx.accountKeys) : tx.accountKeys[i].pubkey # TREASURY_WALLET

\* the record carries the members the data model names
HasMembers(tx) ==
    tx.meta = "present" /\ tx.shape \notin {"no_balances", "no_transaction"}

\* the three sequences of the record have one length
LengthsAgree(tx) ==
    /\ Len(tx.accountKeys) = Len(tx.preBalances)
    /\ Len(tx.accountKeys) = Len(tx.postBalances)

TrackedDelta(tx) ==
    LET idx == CHOOSE i \in 1..Len(tx.accountKeys) :
                   tx.accountKeys[i].pubkey = TREASURY_WALLET
    IN  tx.postBalances[idx] - tx.preBalances[idx]

\* C7: the concrete scenario (T receives 250000000 lamports from A, fee
\* 5000, one parsed transfer instruction from A to T) yields a Transfer with
\* signed_amount 0.25, counterparty A and is_system_transfer true.
C7_Scenario ==
    (/\ exFn = "extract_sol_transfers"
     /\ tx_data = [ScenarioTx EXCEPT !.instructions =
                       <<SysTransfer("A", "T", ScenarioAmount)>>])
    => /\ ~exOut.raised
       /\ exOut.value # None
       /\ exOut.value[1].balance_change * 4 = LAMPORTS_PER_SOL
       /\ exOut.value[1].counterparty = "A"
       /\ exOut.value[1].is_system_transfer

\* C8: a transaction whose account_keys (bare or wrapped) do not contain
\* the tracked address yields none.
C8_AbsentGivesNone ==
    (/\ exFn \in {"extract_sol_transfers", "find_incoming_transactions"}
     /\ tx_data.meta \in {"absent", "null"} \/ HasMembers(tx_data)
     /\ TrackedAbsent(tx_data))
    => exOut = Returned(None)

\* the tracked address is absent while other accounts moved real amounts
C8_Witness ==
    /\ exFn = "extract_sol_transfers"
    /\ HasMembers(tx_data)
    /\ TrackedAbsent(tx_data)
    /\ Len(tx_data.accountKeys) >= 2
    /\ ~tx_data.accountKeys[1].wrapped
    /\ tx_data.postBalances[1] - tx_data.preBalances[1] = SmallAmount
    /\ tx_data.postBalances[2] - tx_data.preBalances[2] < 0
    /\ exOut = Returned(None)

\* C9: a transaction in which the tracked account's balance changed by
\* fewer than 1000 lamports (1e-6 display units), zero included, yields none.
C9_DustGivesNone ==
    (/\ exFn \in {"extract_sol_transfers", "analyze_transaction"}
     /\ HasMembers(tx_data)
     /\ LengthsAgree(tx_data)
     /\ ~TrackedAbsent(tx_data)
     /\ Abs(TrackedDelta(tx_data)) < DUST_LAMPORTS)
    => exOut = Returned(None)

\* the tracked account gained 999 lamports while another lost a real amount
C9_Witness ==
    /\ exFn = "extract_sol_transfers"
    /\ HasMembers(tx_data)
    /\ LengthsAgree(tx_data)
    /\ ~TrackedAbsent(tx_data)
    /\ TrackedDelta(tx_data) = DUST_LAMPORTS - 1
    /\ \E i \in 1..Len(tx_data.accountKeys) :
           tx_data.postBalances[i] - tx_data.preBalances[i] = -SmallAmount
    /\ exOut = Returned(None)

\* the instructions of the record that are decoded system transfers from or
\* to the tracked address
TrackedInstrs(tx) ==
    { k \in 1..Len(tx.instructions) :
        /\ tx.has_instructions
        /\ IsSystemTransfer(tx.instructions[k])
        /\ \/ tx.instructions[k].source = TREASURY_WALLET
           \/ tx.instructions[k].destination = TREASURY_WALLET }

OtherParty(instr) ==
    IF instr.source = TREASURY_WALLET THEN instr.destination ELSE instr.source

\* C10: when the transaction carries a decoded system-transfer instruction
\* whose source or destination is the tracked address, the returned
\* Transfer takes its amount and its counterparty from that instruction.
C10_PrefersInstruction ==
    (/\ exFn = "extract_sol_transfers"
     /\ exOut.value # None
     /\ TrackedInstrs(tx_data) # {})
    => \E k \in TrackedInstrs(tx_data) :
          /\ Abs(exOut.value[1].balance_change) = tx_data.instructions[k].lamports
          /\ exOut.value[1].counterparty = OtherParty(tx_data.instructions[k])

\* C10 (amended): such an instruction decides the description only (the
\* last one wins); the amount is still the tracked account's balance change
\* and the counterparty still the one the balance-delta scan finds, as for
\* the same record without instructions.
C10_InstructionDecidesDescriptionOnly ==
    (/\ exFn = "extract_sol_transfers"
     /\ exOut.value # None
     /\ TrackedInstrs(tx_data) # {})
    => LET k == CHOOSE m \in TrackedInstrs(tx_data) :
                    \A j \in TrackedInstrs(tx_data) : j <= m
           instr == tx_data.instructions[k]
           t == exOut.value[1]
       IN  /\ t.description.amount = instr.lamports
           /\ t.description.party = OtherParty(instr)
           /\ t.description.kind =
                  (IF instr.source = TREASURY_WALLET THEN "Transfer to"
                   ELSE "Receive from")
           /\ t.balance_change = TrackedDelta(tx_data)
           /\ \E tie \in Ties :
                LET plain == extract_sol_transfers(
                                 [tx_data EXCEPT !.instructions = <<>>],
                                 TREASURY_WALLET, tie)
                IN  /\ plain.value # None
                    /\ plain.value[1].counterparty = t.counterparty
                    /\ plain.value[1].balance_change = t.balance_change

\* a Transfer whose instruction names another party and another amount than
\* the Transfer itself
C10_Witness ==
    /\ exFn = "extract_sol_transfers"
    /\ exOut.value # None
    /\ \E k \in TrackedInstrs(tx_data) :
          /\ tx_data.instructions[k].lamports # Abs(exOut.value[1].balance_change)
          /\ OtherParty(tx_data.instructions[k]) # exOut.value[1].counterparty
          /\ exOut.value[1].description.party = OtherParty(tx_data.instructions[k])

\* the account the specification's sender rule selects for a transfer of
\* `amount` into the account at idx (0: none): the fee is added back for the
\* fee payer, the first account of the message, only
FeePayerSender(tx, idx, amount) ==
    LET q == { i \in Others(tx, idx) :
                 LET change == tx.postBalances[i] - tx.preBalances[i]
                     fee == IF i = 1 THEN tx.fee ELSE 0
                 IN  change < 0 /\ Abs(change + fee) >= Abs(amount) }
    IN  IF q = {} THEN 0 ELSE CHOOSE i \in q : \A j \in q : i <= j

\* the comparison of line 152 is at exact equality for some account: the
\* rounding of the divisions decides it
CodeTie(tx, amount) ==
    \E i \in 1..Len(tx.preBalances) :
        Abs(tx.postBalances[i] - tx.preBalances[i] + tx.fee) = Abs(amount)

\* C11: for an incoming transfer the counterparty is the address of the
\* lowest-index account other than the tracked one whose delta is negative
\* and whose magnitude, with the fee added back only when that account is
\* the fee payer, is at least the amount received; a non-fee-paying account
\* that lost exactly the amount received qualifies.  (Stated for the
\* records on which rounding decides nothing.)
C11_FeeAddedForPayerOnly ==
    (/\ exFn = "extract_sol_transfers"
     /\ HasMembers(tx_data)
     /\ LengthsAgree(tx_data)
     /\ ~exOut.raised
     /\ exOut.value # None
     /\ exOut.value[1].balance_change > 0
     /\ ~CodeTie(tx_data, exOut.value[1].balance_change))
    => LET idx == TreasuryIndex(tx_data.accountKeys, TREASURY_WALLET)
           s == FeePayerSender(tx_data, idx, exOut.value[1].balance_change)
       IN  exOut.value[1].counterparty =
                  (IF s = 0 THEN Unknown ELSE tx_data.accountKeys[s].pubkey)

\* C12: a record in which the lengths of account_keys, pre_balances and
\* post_balances are not all equal, or whose meta is absent, yields none and
\* raises no exception.
C12_UnparseableGivesNone ==
    (/\ exFn \in {"extract_sol_transfers", "find_incoming_transactions"}
     /\ \/ tx_data.meta \in {"absent", "null"}
        \/ HasMembers(tx_data) /\ tx_data.shape = "ok"
           /\ ~LengthsAgree(tx_data))
    => /\ ~exOut.raised
       /\ exOut.value = None

(***************************************************************************)
(* Run claims.                                                             *)
(***************************************************************************)
SignaturesOf(ts) == { ts[i].signature : i \in 1..Len(ts) }
Range(q) == { q[i] : i \in 1..Len(q) }

\* C4: a fetch that yields none is not escalated: the run goes on to fetch
\* every later signature within the processing bound, and the transfers
\* collected before and after it are in the final result.
C4_NoneNotEscalated ==
    mode = "run" =>
        /\ runHist.fetched = SubSeq(ToProcess(signatures), 1, runIdx)
        /\ runPc = "done" => runIdx = Len(ToProcess(signatures))
        /\ runPc = "crashed" => runIdx \notin runHist.noneAt
        /\ runPc # "crashed" =>
              /\ Len(sol_transfers) = Len(runHist.yielded)
              /\ SignaturesOf(sol_transfers) = Range(runHist.yielded)

\* a run of three signatures whose second fetch yields none and whose first
\* and third yield transfers
C4_Witness ==
    /\ mode = "run"
    /\ runPc = "done"
    /\ Len(signatures) = 3
    /\ runHist.noneAt = {2}
    /\ runHist.fetched = <<1, 2, 3>>
    /\ SignaturesOf(sol_transfers) = {1, 3}

\* C13: no single transaction's failure aborts the run: whatever record a
\* fetch brings (missing members, null blockTime, bare-string keys, missing
\* meta), no exception leaves the loop and the run goes on.
C13_NoTransactionAbortsRun ==
    mode = "run" => runPc # "crashed"

\* the records of ts that are the first of their signature
RECURSIVE FirstPerSignature(_, _)
FirstPerSignature(ts, seen) ==
    IF ts = <<>> THEN <<>>
    ELSE IF Head(ts).signature \in seen
    THEN FirstPerSignature(Tail(ts), seen)
    ELSE <<Head(ts)>>
         \o FirstPerSignature(Tail(ts), seen \cup {Head(ts).signature})

\* C14: ingestion is idempotent per signature: a Transfer whose signature
\* was already ingested leaves total_incoming, total_outgoing and the
\* transfer count as they were.
C14_IdempotentPerSignature ==
    (mode = "run" /\ runScript = "get_sol_transfers" /\ runPc = "done")
    => LET once == FirstPerSignature(sol_transfers, {})
       IN  /\ Len(sol_transfers) = Len(once)
           /\ totals.total_in = TotalIn(once)
           /\ totals.total_out = TotalOut(once)

\* C15: the result of a run holds at most one transfer record per
\* transaction signature, whatever the transaction carries.
C15_OnePerSignature ==
    mode = "run" =>
        \A i, j \in 1..Len(sol_transfers) :
            i # j => sol_transfers[i].signature # sol_transfers[j].signature

\* the sum of a sequence of numbers
RECURSIVE SeqSum(_)
SeqSum(q) ==
    IF q = <<>> THEN 0
    ELSE q[Len(q)] + SeqSum(SubSeq(q, 1, Len(q) - 1))

\* the change of the tracked account in one analysis of examine_all_txs
TreasuryChange(analysis) ==
    LET k == CHOOSE k \in 1..Len(analysis.transfers) :
                 analysis.transfers[k].is_treasury
    IN  analysis.transfers[k].change_sol

\* C16: total_incoming is the sum of the positive signed amounts and
\* total_outgoing the sum of the absolute values of the negative signed
\* amounts of the transfers in the result, and both are non-negative.
C16_RunningTotals ==
    (mode = "run" /\ runPc = "done") =>
        /\ totals.total_in >= 0
        /\ totals.total_out >= 0
        /\ runScript = "get_sol_transfers" =>
             /\ totals.total_in =
                  SeqSum([i \in 1..Len(sol_transfers) |->
                            IF sol_transfers[i].balance_change > 0
                            THEN sol_transfers[i].balance_change ELSE 0])
             /\ totals.total_out =
                  SeqSum([i \in 1..Len(sol_transfers) |->
                            IF sol_transfers[i].balance_change < 0
                            THEN 0 - sol_transfers[i].balance_change ELSE 0])
        /\ runScript \in {"fetch_simple", "get_all_incoming"} =>
             /\ totals.total_in =
                  SeqSum([i \in 1..Len(sol_transfers) |->
                            sol_transfers[i].amount])
             /\ totals.total_out = 0
        /\ runScript = "examine_all_txs" =>
             /\ totals.total_in =
                  SeqSum([i \in 1..Len(sol_transfers) |->
                            IF TreasuryChange(sol_transfers[i]) > 0
                            THEN TreasuryChange(sol_transfers[i]) ELSE 0])
             /\ totals.total_out =
                  SeqSum([i \in 1..Len(sol_transfers) |->
                            IF TreasuryChange(sol_transfers[i]) < 0
                            THEN 0 - TreasuryChange(sol_transfers[i]) ELSE 0])

\* a finished run of get_sol_transfers with money in and money out
C16_Witness ==
    /\ mode = "run" /\ runScript = "get_sol_transfers" /\ runPc = "done"
    /\ totals.total_in = 2 * SmallAmount
    /\ totals.total_out = SmallAmount + NetworkFee
    /\ Len(sol_transfers) = 3

SortedBy(key) ==
    \A i \in 1..(Len(key) - 1) : key[i] >= key[i + 1]

Arrivals(ts) ==
    { [i \in 1..Len(ts) |-> ts[f[i]]] :
        f \in { g \in [1..Len(ts) -> 1..Len(ts)] :
                  \A i, j \in 1..Len(ts) : i # j => g[i] # g[j] } }

\* C18: transfers with equal timestamps are ordered by signature, so the
\* output order is the same for every arrival order of the same transfers.
C18_OrderIndependentOfArrival ==
    (mode = "run" /\ runScript = "get_sol_transfers" /\ runPc = "done")
    => \A arrived \in Arrivals(sol_transfers) :
          SortNewestFirst(arrived) = sol_transfers

\* the signatures of the records of ts with timestamp t, in order
SignaturesAt(ts, t) ==
    LET AtT(x) == x.timestamp = t
        sel == SelectSeq(ts, AtT)
    IN  [i \in 1..Len(sel) |-> sel[i].signature]

\* the signatures that yielded a transfer with timestamp t, in the order in
\* which the loop met them
ArrivedAt(t) ==
    LET AtT(sg) == \E i \in 1..Len(sol_transfers) :
                       /\ sol_transfers[i].signature = sg
                       /\ sol_transfers[i].timestamp = t
    IN  SelectSeq(runHist.yielded, AtT)

\* C18 (amended): the sort is by timestamp only and stable: transfers with
\* equal timestamps stay in the order in which the loop collected them.
C18_TiesKeepArrivalOrder ==
    (mode = "run" /\ runScript = "get_sol_transfers" /\ runPc = "done")
    => \A i \in 1..Len(sol_transfers) :
          SignaturesAt(sol_transfers, sol_transfers[i].timestamp)
              = ArrivedAt(sol_transfers[i].timestamp)

\* two transfers of one timestamp behind a newer one that arrived last
C18_Witness ==
    /\ mode = "run" /\ runScript = "get_sol_transfers" /\ runPc = "done"
    /\ Len(sol_transfers) = 3
    /\ runHist.yielded = <<1, 2, 3>>
    /\ sol_transfers[1].signature = 3
    /\ sol_transfers[2].signature = 1
    /\ sol_transfers[3].signature = 2
    /\ sol_transfers[2].timestamp = sol_transfers[3].timestamp
    /\ sol_transfers[2].balance_change # sol_transfers[3].balance_change

\* C19: a transfer whose timestamp is none is accepted and sorts as if its
\* timestamp were 0; producing it raises no error.
C19_NullTimestampAccepted ==
    (/\ mode = "extract"
     /\ exFn = "extract_sol_transfers"
     /\ HasMembers(tx_data) /\ tx_data.shape = "ok"
     /\ LengthsAgree(tx_data)
     /\ tx_data.logMessages # "null"
     /\ ~TrackedAbsent(tx_data)
     /\ Abs(TrackedDelta(tx_data)) > DUST_LAMPORTS
     /\ tx_data.blockTime.kind = "null")
    => /\ ~exOut.raised
       /\ exOut.value # None
       /\ exOut.value[1].timestamp = 0

(***************************************************************************)
(* Contribution run claims.                                                *)
(***************************************************************************)
\* C20: early stop: once the accumulated total has reached the target, no
\* further transaction is fetched and no further signature batch requested.
C20_EarlyStop ==
    [][ (mode = "contrib" /\ total_sol >= TARGET_TOTAL)
        => /\ processed_count' = processed_count
           /\ batch_count' = batch_count ]_vars

\* the run ended at the target with entries of its batch unprocessed and
\* history behind its cursor unrequested
C20_Witness ==
    /\ mode = "contrib" /\ conPc = "done"
    /\ total_sol >= TARGET_TOTAL
    /\ entryIdx < Len(signatures_data)
    /\ before_signature < Len(ledger)
    /\ processed_count < before_signature
    /\ batch_count < max_batches

(***************************************************************************)
(* Pagination protocol: short batches, empty batches, cursors, max_total.  *)
(***************************************************************************)
\* C21: once the paginator has received a non-empty batch shorter than
\* batch_size, it issues no further getSignaturesForAddress call
C21_NoCallAfterShortBatch ==
    [][pagHist.short => pagHist'.calls = pagHist.calls]_vars

\* C22: once a getSignaturesForAddress call has answered with an empty
\* batch (conHist.empties counts the calls that brought nothing, of which
\* conHist.failures raised), no further call is issued; batch_count is the
\* number of calls made
C22_NoCallAfterEmptyBatch ==
    [][conHist.empties > conHist.failures => batch_count' = batch_count]_vars

\* C23: the first getSignaturesForAddress call of a pagination carries no
\* `before` cursor (0), and every later call carries the signature of the
\* last record of the most recently received non-empty batch
C23_CursorProtocol ==
    (mode = "paginate" /\ pagHist.calls >= 1) =>
        /\ pagHist.calls = 1 => pagHist.sent = 0
        /\ pagHist.sent = pagHist.expected

\* a later call of get_sol_transfers went out with the cursor of a full
\* batch
C23_Witness ==
    /\ mode = "paginate" /\ script = "get_sol_transfers"
    /\ batch_size >= 2
    /\ pagHist.calls >= 3
    /\ pagHist.sent = 2 * batch_size

\* C24: the sequence examine_all_txs.get_all_signatures(address, limit)
\* returns holds at most max_total (limit) records
C24_AtMostMaxTotal ==
    (mode = "paginate" /\ script = "examine_all_txs" /\ pagPc = "done") =>
        Len(all_signatures) <= max_total

(***************************************************************************)
(* Extraction claims: amount, counterparty by balance delta, system flag.  *)
(***************************************************************************)
\* a record with every member present and of the type the data model gives
WellFormedRecord(tx) ==
    /\ HasMembers(tx) /\ tx.shape = "ok"
    /\ LengthsAgree(tx)
    /\ tx.blockTime.kind = "int"
    /\ tx.logMessages \in {"no_system", "system"}

\* C25: for a well-formed record that holds the tracked address with a
\* balance delta of at least 1000 lamports in absolute value, extract
\* returns a Transfer whose signed_amount is post - pre (in lamports here):
\* positive for an increase, negative for a decrease
C25_SignedAmount ==
    (/\ exFn = "extract_sol_transfers"
     /\ WellFormedRecord(tx_data)
     /\ ~TrackedAbsent(tx_data)
     /\ Abs(TrackedDelta(tx_data)) >= DUST_LAMPORTS)
    => /\ ~exOut.raised
       /\ exOut.value # None
       /\ exOut.value[1].balance_change = TrackedDelta(tx_data)

\* the accounts other than the tracked one whose balance rose by at least
\* the amount the tracked account lost
Recipients(tx) ==
    { i \in 1..Len(tx.accountKeys) :
        /\ i # TreasuryIndex(tx.accountKeys, TREASURY_WALLET)
        /\ tx.postBalances[i] - tx.preBalances[i] > 0
        /\ tx.postBalances[i] - tx.preBalances[i] >= Abs(TrackedDelta(tx)) }

\* C26: in the Transfer extract returns for an outgoing transfer, the
\* counterparty is the address of the lowest-index account other than the
\* tracked one whose delta is positive and at least abs(signed_amount)
C26_OutgoingCounterparty ==
    (/\ exFn = "extract_sol_transfers"
     /\ WellFormedRecord(tx_data)
     /\ ~TrackedAbsent(tx_data)
     /\ TrackedDelta(tx_data) < 0
     /\ exOut.value # None
     /\ Recipients(tx_data) # {})
    => exOut.value[1].counterparty =
         tx_data.accountKeys[CHOOSE i \in Recipients(tx_data) :
                               \A j \in Recipients(tx_data) : i <= j].pubkey

\* no other account satisfies the balance-delta matching rule for the
\* tracked account's delta: no sender for an increase, no recipient for a
\* decrease
NoneQualifies(tx) ==
    IF TrackedDelta(tx) > 0
    THEN FeePayerSender(tx, TreasuryIndex(tx.accountKeys, TREASURY_WALLET),
                        TrackedDelta(tx)) = 0
    ELSE Recipients(tx) = {}

\* C27: when no other account satisfies the matching rule, extract still
\* returns a Transfer, and its counterparty is the unknown sentinel
C27_UnknownWhenNoneQualifies ==
    (/\ exFn = "extract_sol_transfers"
     /\ WellFormedRecord(tx_data)
     /\ ~TrackedAbsent(tx_data)
     /\ Abs(TrackedDelta(tx_data)) > DUST_LAMPORTS
     /\ NoneQualifies(tx_data))
    => /\ ~exOut.raised
       /\ exOut.value # None
       /\ exOut.value[1].counterparty = Unknown

\* C28: in every Transfer extract returns, is_system_transfer is true iff
\* some log message of the record shows an invocation of the system
\* program, whatever the parsed instructions are
C28_SystemFlagFromLogs ==
    (/\ exFn = "extract_sol_transfers"
     /\ ~exOut.raised
     /\ exOut.value # None)
    => (exOut.value[1].is_system_transfer <=> tx_data.logMessages = "system")

\* a Transfer whose record holds a decoded system transfer to the tracked
\* address and no log line of the system program: the flag is false
C28_Witness ==
    /\ exFn = "extract_sol_transfers"
    /\ exOut.value # None
    /\ tx_data.logMessages \in {"absent", "no_system"}
    /\ tx_data.has_instructions
    /\ \E k \in 1..Len(tx_data.instructions) :
          /\ IsSystemTransfer(tx_data.instructions[k])
          /\ tx_data.instructions[k].destination = TREASURY_WALLET
    /\ ~exOut.value[1].is_system_transfer

(***************************************************************************)
(* Fetch loop claims: pacing and the processing bound.                     *)
(***************************************************************************)
\* C29: between any two consecutive transaction fetches of a run there is
\* a pacing delay, whether the earlier fetch returned a record or none:
\* every fetch but the latest was followed by a sleep
C29_PacedBetweenFetches ==
    mode = "run" =>
        \A i \in 1..(Len(runHist.fetched) - 1) : i \in runHist.paced

\* the processing bound of the script: 100 in get_all_txn_data, else
\* MAX_TRANSACTIONS_TO_PROCESS
ProcessingBound ==
    IF runScript = "get_all_txn_data" THEN 100 ELSE MAX_TRANSACTIONS_TO_PROCESS

\* C30: the number of getTransaction fetches of a run never exceeds the
\* processing bound, however many signatures were discovered, and the
\* signatures fetched are the newest ones in the order the paginator
\* returned them: a prefix of the list, which a run that ends normally has
\* fetched up to the bound
C30_FetchesWithinBound ==
    mode = "run" =>
        /\ Len(runHist.fetched) <= ProcessingBound
        /\ Len(runHist.fetched) <= Len(signatures)
        /\ runHist.fetched = SubSeq(signatures, 1, Len(runHist.fetched))
        /\ runPc = "done" =>
               Len(runHist.fetched) = Min(Len(signatures), ProcessingBound)

\* a run over more signatures than the bound that has ended
C30_Witness ==
    /\ mode = "run" /\ runScript = "get_sol_transfers"
    /\ runPc = "done"
    /\ Len(signatures) > MAX_TRANSACTIONS_TO_PROCESS
    /\ Len(runHist.fetched) = MAX_TRANSACTIONS_TO_PROCESS

(***************************************************************************)
(* Termination of the contribution tally.                                  *)
(***************************************************************************)
\* C31: the contribution-tally run makes at most max_batches (20)
\* get_signatures calls and always comes to an end, also when every call
\* fails or answers with an empty batch and the target is never reached
C31_Terminates ==
    /\ [](mode = "contrib" => batch_count <= 20)
    /\ <>(conPc \in {"done", "crashed"})

\* a run in which every one of the 20 calls failed has ended
C31_Witness ==
    /\ mode = "contrib" /\ conPc = "done"
    /\ Len(ledger) > 0
    /\ batch_count = 20
    /\ conHist.failures = 20
    /\ total_sol < TARGET_TOTAL

(***************************************************************************)
(* The counterparty is another account that moved the other way.           *)
(***************************************************************************)
\* C32: whenever extract returns a Transfer with a known counterparty, the
\* counterparty is the address of an account at an index other than the
\* tracked account's whose balance delta has the sign opposite to the
\* tracked account's delta
C32_CounterpartyIsOtherAccount ==
    (/\ exFn = "extract_sol_transfers"
     /\ exOut.value # None
     /\ exOut.value[1].counterparty # Unknown)
    => LET idx == TreasuryIndex(tx_data.accountKeys, TREASURY_WALLET)
           own == tx_data.postBalances[idx] - tx_data.preBalances[idx]
       IN  \E i \in 1..Len(tx_data.accountKeys) :
             /\ i # idx
             /\ i <= Len(tx_data.preBalances) /\ i <= Len(tx_data.postBalances)
             /\ tx_data.accountKeys[i].pubkey = exOut.value[1].counterparty
             /\ LET d == tx_data.postBalances[i] - tx_data.preBalances[i]
                IN  (own > 0 /\ d < 0) \/ (own < 0 /\ d > 0)

\* a transfer out of the tracked account, which is not the first of three
\* accounts, with the recipient found behind an account that did not gain
C32_Witness ==
    /\ exFn = "extract_sol_transfers"
    /\ exOut.value # None
    /\ Len(tx_data.accountKeys) = 3
    /\ TreasuryIndex(tx_data.accountKeys, TREASURY_WALLET) = 2
    /\ exOut.value[1].balance_change < 0
    /\ tx_data.postBalances[1] <= tx_data.preBalances[1]
    /\ exOut.value[1].counterparty = tx_data.accountKeys[3].pubkey

====
